---- MODULE Spec2Model ----
(***************************************************************************)
(* A model of the educational Bitcoin implementation                       *)
(* (src/Implementing/bitcoin_implementation.py): transactions, the UTXO    *)
(* set, blocks with proof of work, and the Blockchain object with its      *)
(* pending pool; and of the mempool with its selection strategies          *)
(* (src/Transaction_prioritization/transaction_prioritization.py).         *)
(*                                                                         *)
(* Conventions.                                                            *)
(*  - Amounts are counted in whole coins (1 coin = 10^8 satoshi), so the   *)
(*    genesis output is 100 and the block reward 50: the satoshi figures   *)
(*    do not fit the model checker's 32-bit integers.                      *)
(*  - A hash is modelled by the data that was hashed (SHA-256 is taken to  *)
(*    be collision free), tagged with what kind of object it is.  The hex  *)
(*    form of a block hash is read only through the number of its leading  *)
(*    '0' characters, which LeadingZeros derives from the hashed data by a *)
(*    small deterministic digest.                                          *)
(*  - A byte string (signature, public key) is its length and a tag        *)
(*    naming who made it.                                                  *)
(***************************************************************************)
EXTENDS Integers, Sequences, FiniteSets, TLC

VARIABLES
    chain,                 \* Blockchain.chain
    pending_transactions,  \* Blockchain.pending_transactions
    utxos,                 \* Blockchain.utxo_set.utxos
    clock,                 \* int(time.time())
    last,                  \* the last call made on the Blockchain: op, arg, ret
    calls,                 \* how many calls were made so far
    tampered,              \* which block a caller overwrote from outside, if any
    mempool,               \* Mempool.transactions, in the dictionary's order
    interpreter            \* a ScriptInterpreter: stack, alt_stack, transaction_context

vars == <<chain, pending_transactions, utxos, clock, last, calls, tampered, mempool,
          interpreter>>

-----------------------------------------------------------------------------
(* Bounds of the model *)

\* a run makes at most this many calls on the Blockchain, a passing second
\* counted as one
MaxCalls == 4
\* residues of the digest that stands for the leading hex digits of a hash
HashMod == 6
\* mine_block's safety limit (10_000_000 in the source), scaled to HashMod
AttemptCap == 2
\* the values a draw of the random module takes
RandomSteps == 4
\* the largest seed of the random module
MaxSeed == 15
\* the largest number of iterations of the annealing
MaxIterations == 2

\* the number of transactions without parents in the scenario mempool
S5Count == 20

\* the number of keys of a multisig lock
MaxKeys == 3

\* the length of the byte strings handed to the codec and the wire format
MaxBytes == 3

\* the small integers handed to the codec
MaxNumber == 300

-----------------------------------------------------------------------------
(* Program constants *)

\* Blockchain.difficulty
difficulty == 4
\* Blockchain.mining_reward, in coins
mining_reward == 50
\* amount of the genesis output, in coins
GenesisAmount == 100
\* 0xFFFFFFFF as a 32-bit two's-complement word
CoinbaseIndex == -1
\* length of an HMAC-SHA256 signature, and of a SHA-256 public key
SigLen == 32

\* "0" * 64
ZeroHash == [kind |-> "zero"]

Wallets == {"A", "B", "C"}
Miners == {"A", "C"}
Addresses == Wallets \cup {"genesis"}

-----------------------------------------------------------------------------
(* Byte strings *)

EmptyBytes == [len |-> 0, by |-> "nobody"]
\* Wallet.sign: an HMAC-SHA256 digest made with w's private key
WalletSign(w) == [len |-> SigLen, by |-> w]
\* Wallet.public_key
PublicKey(w) == [len |-> SigLen, by |-> w]
\* a byte string one byte short of a signature
ShortSig == [len |-> SigLen - 1, by |-> "nobody"]

\* Wallet.verify_with_pubkey: only the signature's length is looked at
verify_with_pubkey(public_key_bytes, message, signature) ==
    signature.len = 32

-----------------------------------------------------------------------------
(* Transactions *)

TxInput(h, i, sig, pk) ==
    [prev_tx_hash |-> h, prev_output_index |-> i, signature |-> sig, public_key |-> pk]

TxOutput(a, addr) == [amount |-> a, recipient_address |-> addr]

\* Transaction.serialize_for_hashing: timestamp, the inputs' outpoints, the
\* outputs; signatures and public keys are not part of it
serialize_for_hashing(timestamp, inputs, outputs) ==
    [timestamp |-> timestamp,
     inputs    |-> [i \in 1..Len(inputs) |->
                       <<inputs[i].prev_tx_hash, inputs[i].prev_output_index>>],
     outputs   |-> [i \in 1..Len(outputs) |->
                       <<outputs[i].amount, outputs[i].recipient_address>>]]

\* hash256 of a transaction's serialization
Transaction_calculate_hash(timestamp, inputs, outputs) ==
    [kind |-> "tx", data |-> serialize_for_hashing(timestamp, inputs, outputs)]

\* Transaction(...) with __post_init__ filling in tx_hash
Transaction(inputs, outputs, timestamp) ==
    [inputs |-> inputs, outputs |-> outputs, timestamp |-> timestamp,
     tx_hash |-> Transaction_calculate_hash(timestamp, inputs, outputs)]

\* create_coinbase_transaction; block_height is not used by the code
create_coinbase_transaction(miner_address, block_height, reward, now) ==
    Transaction(<<TxInput(ZeroHash, CoinbaseIndex, EmptyBytes, EmptyBytes)>>,
                <<TxOutput(reward, miner_address)>>,
                now)

\* the key f"{tx_hash}:{output_index}" of the UTXO dictionary
UtxoKey(h, i) == <<h, i>>

\* Transaction.verify_signatures, input by input from position i
RECURSIVE VerifyFrom(_, _, _)
VerifyFrom(tx, u, i) ==
    IF i > Len(tx.inputs) THEN TRUE
    ELSE LET inp == tx.inputs[i] IN
         IF inp.signature.len = 0 \/ inp.public_key.len = 0 THEN FALSE
         ELSE IF ~verify_with_pubkey(inp.public_key,
                      serialize_for_hashing(tx.timestamp, tx.inputs, tx.outputs),
                      inp.signature) THEN FALSE
         ELSE IF UtxoKey(inp.prev_tx_hash, inp.prev_output_index) \notin DOMAIN u THEN FALSE
         ELSE VerifyFrom(tx, u, i + 1)

verify_signatures(tx, u) == VerifyFrom(tx, u, 1)

-----------------------------------------------------------------------------
(* UTXO set: a dictionary from keys to outputs *)

add_utxo(u, tx_hash, output_index, output) ==
    [k \in DOMAIN u \cup {UtxoKey(tx_hash, output_index)} |->
        IF k = UtxoKey(tx_hash, output_index) THEN output ELSE u[k]]

remove_utxo(u, tx_hash, output_index) ==
    IF UtxoKey(tx_hash, output_index) \in DOMAIN u
    THEN [k \in DOMAIN u \ {UtxoKey(tx_hash, output_index)} |-> u[k]]
    ELSE u

RECURSIVE SumAmounts(_, _)
SumAmounts(u, keys) ==
    IF keys = {} THEN 0
    ELSE LET k == CHOOSE x \in keys : TRUE
         IN u[k].amount + SumAmounts(u, keys \ {k})

\* UTXOSet.get_balance
get_balance(u, address) ==
    SumAmounts(u, {k \in DOMAIN u : u[k].recipient_address = address})

\* the first loop of update_with_transaction, from input i
RECURSIVE RemoveSpent(_, _, _)
RemoveSpent(u, inputs, i) ==
    IF i > Len(inputs) THEN u
    ELSE IF inputs[i].prev_tx_hash # ZeroHash
         THEN RemoveSpent(remove_utxo(u, inputs[i].prev_tx_hash,
                                      inputs[i].prev_output_index), inputs, i + 1)
         ELSE RemoveSpent(u, inputs, i + 1)

\* the second loop of update_with_transaction, from output i (enumerate
\* counts from 0)
RECURSIVE AddOutputs(_, _, _)
AddOutputs(u, tx, i) ==
    IF i > Len(tx.outputs) THEN u
    ELSE AddOutputs(add_utxo(u, tx.tx_hash, i - 1, tx.outputs[i]), tx, i + 1)

\* a variant that adds the outputs and leaves the spent entries in place
update_without_spending(u, tx) == AddOutputs(u, tx, 1)

update_with_transaction(u, tx) == AddOutputs(RemoveSpent(u, tx.inputs, 1), tx, 1)

\* a variant that leaves the first transaction (the coinbase) out
RECURSIVE ApplyAllButFirst(_, _, _)
ApplyAllButFirst(u, txs, i) ==
    IF i > Len(txs) THEN u
    ELSE ApplyAllButFirst(IF i = 1 THEN u ELSE update_with_transaction(u, txs[i]),
                          txs, i + 1)

\* for tx in transactions: update_with_transaction(tx)
RECURSIVE ApplyAll(_, _, _)
ApplyAll(u, txs, i) ==
    IF i > Len(txs) THEN u
    ELSE ApplyAll(update_with_transaction(u, txs[i]), txs, i + 1)

-----------------------------------------------------------------------------
(* Blocks and proof of work *)

\* Block.serialize: the transactions enter by their tx_hash only
Block_serialize(b) ==
    [index |-> b.index, timestamp |-> b.timestamp, previous_hash |-> b.previous_hash,
     nonce |-> b.nonce, difficulty |-> b.difficulty,
     txs |-> [i \in 1..Len(b.transactions) |-> b.transactions[i].tx_hash]]

\* Block.calculate_hash
Block_calculate_hash(b) == [kind |-> "block", data |-> Block_serialize(b)]

RECURSIVE SumSeq(_, _)
SumSeq(s, i) == IF i > Len(s) THEN 0 ELSE s[i] + SumSeq(s, i + 1)

\* a small number standing for the digest of a transaction hash
TxDigest(h) ==
    IF h.kind # "tx" THEN 0
    ELSE h.data.timestamp + Len(h.data.inputs)
         + SumSeq([i \in 1..Len(h.data.outputs) |-> h.data.outputs[i][1]], 1)

\* a small number standing for the digest of a block's serialization
BlockDigest(d) ==
    (d.index + d.timestamp + d.nonce + d.difficulty
       + (IF d.previous_hash.kind = "block"
          THEN d.previous_hash.data.nonce + d.previous_hash.data.timestamp ELSE 0)
       + SumSeq([i \in 1..Len(d.txs) |-> TxDigest(d.txs[i])], 1)) % HashMod

\* the number of leading '0' characters of the hex form of a hash
LeadingZeros(h) ==
    IF h.kind = "zero" THEN 64
    ELSE IF h.kind # "block" THEN 0
    ELSE LET m == BlockDigest(h.data)
         IN IF m = 0 THEN difficulty + 1
            ELSE IF m = 1 THEN difficulty
            ELSE IF m - 2 < difficulty THEN m - 2 ELSE difficulty - 1

\* hash.startswith("0" * n)
StartsWithZeros(h, n) == LeadingZeros(h) >= n

\* Block(...) with __post_init__ filling in the hash; nonce defaults to 0
Block(index, timestamp, transactions, previous_hash, diff) ==
    LET b == [index |-> index, timestamp |-> timestamp, transactions |-> transactions,
              previous_hash |-> previous_hash, nonce |-> 0, hash |-> ZeroHash,
              difficulty |-> diff]
    IN [b EXCEPT !.hash = Block_calculate_hash(b)]

\* the loop of Block.mine_block, entered with the given attempts counter
RECURSIVE MineLoop(_, _)
MineLoop(b, attempts) ==
    LET b1 == [b EXCEPT !.nonce = attempts]
        b2 == [b1 EXCEPT !.hash = Block_calculate_hash(b1)]
    IN IF StartsWithZeros(b2.hash, b2.difficulty) THEN b2
       ELSE IF attempts + 1 > AttemptCap THEN b2
       ELSE MineLoop(b, attempts + 1)

\* a search that begins at nonce 1
MineFromOne(b) == MineLoop(b, 1)

\* Block.mine_block() called without a difficulty argument
mine_block(b) == MineLoop(b, 0)

-----------------------------------------------------------------------------
(* Blockchain *)

\* the genesis transaction: no inputs, one output to "genesis"
GenesisTx(now) == Transaction(<<>>, <<TxOutput(GenesisAmount, "genesis")>>, now)

\* Blockchain._create_genesis_block: the block is built, not mined
GenesisBlock(now) == Block(0, now, <<GenesisTx(now)>>, ZeroHash, difficulty)

\* a variant that links every new block to the first block
get_first_block(c) == c[1]

get_latest_block(c) == c[Len(c)]

NoCall == [op |-> "none", arg |-> "none", ret |-> "none"]

NoTamper == [block |-> -1, field |-> "none"]

Init ==
    /\ clock = 0
    /\ chain = <<GenesisBlock(clock)>>
    /\ pending_transactions = <<>>
    /\ utxos = update_with_transaction(<<>>, GenesisTx(clock))
    /\ last = NoCall
    /\ calls = 0
    /\ tampered = NoTamper
    /\ mempool = <<>>
    /\ interpreter = [stack |-> <<>>, alt_stack |-> <<>>, transaction_context |-> <<>>]

\* time passes
Tick ==
    /\ clock' = clock + 1
    /\ last' = NoCall
    /\ UNCHANGED <<chain, pending_transactions, utxos, tampered>>

\* a variant whose block holds the coinbase only, while the pending
\* transactions are still applied to the UTXO set
mine_coinbase_only_block(miner_address) ==
    LET coinbase_tx == create_coinbase_transaction(miner_address, Len(chain),
                                                   mining_reward, clock)
        transactions == <<coinbase_tx>> \o pending_transactions
        new_block == mine_block(Block(Len(chain), clock, <<coinbase_tx>>,
                                      get_latest_block(chain).hash, difficulty))
    IN /\ chain' = Append(chain, new_block)
       /\ utxos' = ApplyAll(utxos, transactions, 1)
       /\ pending_transactions' = <<>>
       /\ last' = [op |-> "mine_pending_transactions", arg |-> miner_address,
                   ret |-> new_block]
       /\ UNCHANGED <<clock, tampered>>

\* Blockchain.mine_pending_transactions(miner_address)
mine_pending_transactions(miner_address) ==
    LET coinbase_tx == create_coinbase_transaction(miner_address, Len(chain),
                                                   mining_reward, clock)
        transactions == <<coinbase_tx>> \o pending_transactions
        new_block == mine_block(Block(Len(chain), clock, transactions,
                                      get_latest_block(chain).hash, difficulty))
    IN /\ chain' = Append(chain, new_block)
       /\ utxos' = ApplyAll(utxos, transactions, 1)
       /\ pending_transactions' = <<>>
       /\ last' = [op |-> "mine_pending_transactions", arg |-> miner_address,
                   ret |-> new_block]
       /\ UNCHANGED <<clock, tampered>>

Mine == \E m \in Miners : mine_pending_transactions(m)

\* the loop of Blockchain.is_chain_valid from position i of the chain (block
\* index i - 1), with the checks made so far; the result is the returned
\* boolean and the checks made, in order, each as <<block index, check>>
RECURSIVE ChainValidFrom(_, _, _)
ChainValidFrom(c, i, checks) ==
    IF i > Len(c) THEN [valid |-> TRUE, checks |-> checks]
    ELSE LET current_block == c[i]
             previous_block == c[i - 1]
             c1 == Append(checks, <<i - 1, "hash">>)
             c2 == Append(c1, <<i - 1, "previous_hash">>)
             c3 == Append(c2, <<i - 1, "difficulty">>)
         IN IF current_block.hash # Block_calculate_hash(current_block)
            THEN [valid |-> FALSE, checks |-> c1]
            ELSE IF current_block.previous_hash # previous_block.hash
            THEN [valid |-> FALSE, checks |-> c2]
            ELSE IF ~StartsWithZeros(current_block.hash, current_block.difficulty)
            THEN [valid |-> FALSE, checks |-> c3]
            ELSE ChainValidFrom(c, i + 1, c3)

\* a variant of the loop without the previous-hash check
RECURSIVE ChainValidNoLink(_, _, _)
ChainValidNoLink(c, i, checks) ==
    IF i > Len(c) THEN [valid |-> TRUE, checks |-> checks]
    ELSE LET current_block == c[i]
             c1 == Append(checks, <<i - 1, "hash">>)
             c3 == Append(c1, <<i - 1, "difficulty">>)
         IN IF current_block.hash # Block_calculate_hash(current_block)
            THEN [valid |-> FALSE, checks |-> c1]
            ELSE IF ~StartsWithZeros(current_block.hash, current_block.difficulty)
            THEN [valid |-> FALSE, checks |-> c3]
            ELSE ChainValidNoLink(c, i + 1, c3)

is_chain_valid_nolink(c) == ChainValidNoLink(c, 2, <<>>)

\* a variant whose loop is range(2, len(self.chain))
is_chain_valid_from2(c) == ChainValidFrom(c, 3, <<>>)

\* Blockchain.is_chain_valid: for i in range(1, len(self.chain))
is_chain_valid(c) == ChainValidFrom(c, 2, <<>>)

IsChainValid ==
    /\ last' = [op |-> "is_chain_valid", arg |-> "none", ret |-> is_chain_valid(chain)]
    /\ UNCHANGED <<chain, pending_transactions, utxos, clock, tampered>>

\* the first loop of _validate_transaction from input i: the running
\* total_input, or "return False" at the first missing UTXO
RECURSIVE TotalInput(_, _, _, _)
TotalInput(u, inputs, i, total_input) ==
    IF i > Len(inputs) THEN [found |-> TRUE, total |-> total_input]
    ELSE LET utxo_key == UtxoKey(inputs[i].prev_tx_hash, inputs[i].prev_output_index)
         IN IF utxo_key \notin DOMAIN u THEN [found |-> FALSE, total |-> total_input]
            ELSE TotalInput(u, inputs, i + 1, total_input + u[utxo_key].amount)

\* Blockchain._validate_transaction
validate_transaction(u, tx) ==
    IF Len(tx.inputs) = 1 /\ tx.inputs[1].prev_tx_hash = ZeroHash THEN TRUE
    ELSE LET t == TotalInput(u, tx.inputs, 1, 0)
             total_output == SumSeq([i \in 1..Len(tx.outputs) |-> tx.outputs[i].amount], 1)
         IN IF ~t.found THEN FALSE
            ELSE IF total_output > t.total THEN FALSE
            ELSE IF ~verify_signatures(tx, u) THEN FALSE
            ELSE TRUE

\* Blockchain.add_transaction(transaction)
add_transaction(transaction) ==
    /\ IF ~validate_transaction(utxos, transaction)
       THEN /\ pending_transactions' = pending_transactions
            /\ last' = [op |-> "add_transaction", arg |-> transaction, ret |-> FALSE]
       ELSE /\ pending_transactions' = Append(pending_transactions, transaction)
            /\ last' = [op |-> "add_transaction", arg |-> transaction, ret |-> TRUE]
    /\ UNCHANGED <<chain, utxos, clock, tampered>>

(* The transactions a caller hands to add_transaction *)

\* an outpoint that no transaction ever creates: the genesis transaction has
\* the single output 0
MissingOutpoint == <<chain[1].transactions[1].tx_hash, 1>>

\* how the caller fills in signature and public_key of the inputs: both, none,
\* a signature one byte short, or a signature without the key
AuthChoices == {"signed", "unsigned", "short", "nokey"}

SignatureOf(auth) ==
    CASE auth = "signed" -> WalletSign("A")
      [] auth = "nokey"  -> WalletSign("A")
      [] auth = "short"  -> ShortSig
      [] OTHER           -> EmptyBytes

PublicKeyOf(auth) ==
    CASE auth = "signed" -> PublicKey("A")
      [] auth = "short"  -> PublicKey("A")
      [] OTHER           -> EmptyBytes

\* the inputs over the given outpoints; an input with the all-zero hash is
\* left without signature and key, as create_coinbase_transaction builds it
MakeInputs(ops, auth) ==
    [i \in 1..Len(ops) |->
        IF ops[i][1] = ZeroHash
        THEN TxInput(ops[i][1], ops[i][2], EmptyBytes, EmptyBytes)
        ELSE TxInput(ops[i][1], ops[i][2], SignatureOf(auth), PublicKeyOf(auth))]

\* 10 to B and 40 back to A, as in main()
SplitOutputs == <<TxOutput(10, "B"), TxOutput(40, "A")>>
\* one output of 100
BigOutputs == <<TxOutput(100, "A")>>

CallerTransactions ==
    \* an unspent output spent once, signed or not
    {Transaction(MakeInputs(<<o>>, auth), SplitOutputs, clock) :
        o \in DOMAIN utxos \cup {MissingOutpoint}, auth \in AuthChoices}
    \* the same output named by two inputs, or by one that pays out 100
    \cup {Transaction(MakeInputs(ops, "signed"), BigOutputs, clock) :
            ops \in {<<o, o>> : o \in DOMAIN utxos} \cup {<<o>> : o \in DOMAIN utxos}}
    \* a single input with the all-zero hash
    \cup {Transaction(MakeInputs(<<<<ZeroHash, i>>>>, "unsigned"), BigOutputs, clock) :
            i \in {CoinbaseIndex, 0}}

AddTransaction == \E tx \in CallerTransactions : add_transaction(tx)

\* one more call, while the run may go on
Call(n) == calls < n /\ calls' = calls + 1

\* the call that ends the run
LastCall(n) == calls < n /\ calls' = n

Next ==
    \/ Call(MaxCalls) /\ Tick /\ UNCHANGED <<mempool, interpreter>>
    \/ Call(MaxCalls) /\ Mine /\ UNCHANGED <<mempool, interpreter>>
    \/ Call(MaxCalls) /\ AddTransaction /\ UNCHANGED <<mempool, interpreter>>
    \/ Call(MaxCalls) /\ IsChainValid /\ UNCHANGED <<mempool, interpreter>>

Spec == Init /\ [][Next]_vars

-----------------------------------------------------------------------------
(* A chain whose blocks a caller overwrites: the fields of a Block are plain  *)
(* attributes, and is_chain_valid exists to detect such a change.             *)

\* one bit of the nonce flipped: the lowest
FlipBit(n) == IF n % 2 = 0 THEN n + 1 ELSE n - 1

\* block at position i gets another nonce; with field "nonce" the stored hash
\* is left as it was, with "rehash" it is recomputed
TamperBlock(i, field) ==
    /\ tampered = NoTamper
    /\ LET b1 == [chain[i] EXCEPT !.nonce = FlipBit(@)]
           b2 == IF field = "rehash"
                 THEN [b1 EXCEPT !.hash = Block_calculate_hash(b1)] ELSE b1
       IN chain' = [chain EXCEPT ![i] = b2]
    /\ tampered' = [block |-> i - 1, field |-> field]
    /\ last' = NoCall
    /\ UNCHANGED <<pending_transactions, utxos, clock>>

Tamper == \E i \in 1..Len(chain), field \in {"nonce", "rehash"} : TamperBlock(i, field)

\* three blocks, an overwritten field and a validation take five calls
NextTamper ==
    \/ Call(MaxCalls + 1) /\ Tick /\ UNCHANGED <<mempool, interpreter>>
    \/ Call(MaxCalls + 1) /\ Mine /\ UNCHANGED <<mempool, interpreter>>
    \/ Call(MaxCalls + 1) /\ Tamper /\ UNCHANGED <<mempool, interpreter>>
    \/ Call(MaxCalls + 1) /\ IsChainValid /\ UNCHANGED <<mempool, interpreter>>

SpecTamper == Init /\ [][NextTamper]_vars

-----------------------------------------------------------------------------
(* The mempool (src/Transaction_prioritization/transaction_prioritization.py) *)
(* The dictionary Mempool.transactions is the sequence of its values in      *)
(* insertion order; a stored value is the object the caller handed in.       *)

\* scale = 1000 in dp_knapsack_selection
scale == 1000
\* dp_knapsack_selection works on 100 transactions at most
DpLimit == 100
\* temperature = 1000.0 and cooling_rate = 0.995, as fractions
initial_temperature == <<1000, 1>>
cooling_rate == <<995, 1000>>

\* MempoolTransaction(tx_id, fee, size, parents): children starts empty
MempoolTransaction(tx_id, fee, size, parents) ==
    [tx_id |-> tx_id, fee |-> fee, size |-> size, parents |-> parents, children |-> {}]

\* the keys of the dictionary
TxIdsOf(m) == {m[i].tx_id : i \in 1..Len(m)}

\* the position of a key of the dictionary
PositionOf(m, tx_id) == CHOOSE i \in 1..Len(m) : m[i].tx_id = tx_id

\* Mempool.get_transaction: the stored object
get_transaction(m, tx_id) == m[PositionOf(m, tx_id)]

\* self.transactions[tx.tx_id] = tx: a new key goes last, an existing key
\* keeps its place and gets the new object
StoreTransaction(m, tx) ==
    IF tx.tx_id \in TxIdsOf(m)
    THEN [m EXCEPT ![PositionOf(m, tx.tx_id)] = tx]
    ELSE Append(m, tx)

\* Mempool.add_transaction(tx)
Mempool_add_transaction(m, tx) ==
    LET stored == StoreTransaction(m, tx)
    IN [i \in 1..Len(stored) |->
           IF stored[i].tx_id \in tx.parents
           THEN [stored[i] EXCEPT !.children = @ \cup {tx.tx_id}]
           ELSE stored[i]]

\* del self.transactions[tx_id]
DeleteAt(m, p) == SubSeq(m, 1, p - 1) \o SubSeq(m, p + 1, Len(m))

\* Mempool.remove_transaction(tx_id)
Mempool_remove_transaction(m, tx_id) ==
    IF tx_id \notin TxIdsOf(m) THEN m
    ELSE LET p == PositionOf(m, tx_id)
             \* for parent_id in tx.parents: ... children.discard(tx_id)
             m1 == [i \in 1..Len(m) |->
                       IF m[i].tx_id \in m[p].parents
                       THEN [m[i] EXCEPT !.children = @ \ {tx_id}]
                       ELSE m[i]]
             \* for child_id in tx.children: ... parents.discard(tx_id)
             m2 == [i \in 1..Len(m1) |->
                       IF m1[i].tx_id \in m1[p].children
                       THEN [m1[i] EXCEPT !.parents = @ \ {tx_id}]
                       ELSE m1[i]]
         IN DeleteAt(m2, p)

(* Selection strategies.  A result is the returned triple, or the exception *)
(* that ended the call.                                                     *)

Returned(ids, fee, size) ==
    [raised |-> "none", selected |-> ids, total_fee |-> fee, total_size |-> size]

Raised(exception) ==
    [raised |-> exception, selected |-> <<>>, total_fee |-> 0, total_size |-> 0]

\* the elements of a sequence
Range(s) == {s[i] : i \in 1..Len(s)}

\* a quotient fee / size (0 when the size is not positive) as the pair of
\* its numerator and denominator; the code compares the float quotients
Quotient(fee, size) == IF size > 0 THEN <<fee, size>> ELSE <<0, 1>>

\* MempoolTransaction.fee_per_byte
fee_per_byte(tx) == Quotient(tx.fee, tx.size)

\* q1 > q2 for two quotients
Greater(q1, q2) == q1[1] * q2[2] > q2[1] * q1[2]

\* a variant that sorts ascending
SortAscending(entries) ==
    LET Insert(s, e) ==
            LET n == Cardinality({i \in 1..Len(s) : ~Greater(s[i].key, e.key)})
            IN SubSeq(s, 1, n) \o <<e>> \o SubSeq(s, n + 1, Len(s))
        F[i \in 0..Len(entries)] ==
            IF i = 0 THEN <<>> ELSE Insert(F[i - 1], entries[i])
    IN F[Len(entries)]

\* sorted(..., key, reverse=True) over entries [key, item]: descending by key;
\* the sort is stable, entries with equal keys keep their order
SortDescending(entries) ==
    LET Insert(s, e) ==
            LET n == Cardinality({i \in 1..Len(s) : ~Greater(e.key, s[i].key)})
            IN SubSeq(s, 1, n) \o <<e>> \o SubSeq(s, n + 1, Len(s))
        F[i \in 0..Len(entries)] ==
            IF i = 0 THEN <<>> ELSE Insert(F[i - 1], entries[i])
    IN F[Len(entries)]

\* sorted(all_txs, key=lambda tx: tx.fee_per_byte(), reverse=True)
sorted_txs(m) ==
    LET sorted == SortDescending([i \in 1..Len(m) |->
                                     [key |-> fee_per_byte(m[i]), item |-> m[i]]])
    IN [i \in 1..Len(sorted) |-> sorted[i].item]

\* the loop of greedy_selection from position i of the sorted transactions
RECURSIVE GreedyLoop(_, _, _, _, _, _)
GreedyLoop(sorted, max_block_size, i, selected, current_size, total_fee) ==
    IF i > Len(sorted) THEN Returned(selected, total_fee, current_size)
    ELSE IF ~(sorted[i].parents \subseteq Range(selected))
         THEN GreedyLoop(sorted, max_block_size, i + 1, selected, current_size, total_fee)
         ELSE IF current_size + sorted[i].size <= max_block_size
              THEN GreedyLoop(sorted, max_block_size, i + 1,
                              Append(selected, sorted[i].tx_id),
                              current_size + sorted[i].size,
                              total_fee + sorted[i].fee)
              ELSE GreedyLoop(sorted, max_block_size, i + 1, selected, current_size,
                              total_fee)

\* greedy_selection(mempool, max_block_size)
greedy_selection(m, max_block_size) ==
    GreedyLoop(sorted_txs(m), max_block_size, 1, <<>>, 0, 0)

\* AncestorSet(tx_ids, total_fee, total_size); failed marks a recursion that
\* never ends
AncestorSet(tx_ids, total_fee, total_size) ==
    [tx_ids |-> tx_ids, total_fee |-> total_fee, total_size |-> total_size,
     failed |-> FALSE]

RecursionFailed == [tx_ids |-> {}, total_fee |-> 0, total_size |-> 0, failed |-> TRUE]

\* AncestorSet.score
score(ancestor_set) == Quotient(ancestor_set.total_fee, ancestor_set.total_size)

\* calculate_ancestor_set(tx_id, mempool, memo).  The memo only holds the
\* results of calls that have returned, so it changes no result; `path` holds
\* the calls in progress: a call for one of them never returns and the
\* interpreter ends it with RecursionError.
RECURSIVE calculate_ancestor_set(_, _, _)
RECURSIVE AddParentSets(_, _, _, _)
calculate_ancestor_set(tx_id, m, path) ==
    IF tx_id \notin TxIdsOf(m) THEN AncestorSet({}, 0, 0)
    ELSE IF tx_id \in path THEN RecursionFailed
    ELSE LET tx == get_transaction(m, tx_id)
         IN AddParentSets(tx.parents, m, path \cup {tx_id},
                          AncestorSet({tx_id}, tx.fee, tx.size))

\* for parent_id in tx.parents: add the parent's ancestor set to the result
AddParentSets(parents, m, path, result) ==
    IF parents = {} \/ result.failed THEN result
    ELSE LET parent_id == CHOOSE x \in parents : TRUE
             parent_set == calculate_ancestor_set(parent_id, m, path)
         IN IF parent_set.failed THEN RecursionFailed
            ELSE AddParentSets(parents \ {parent_id}, m, path,
                    AncestorSet(result.tx_ids \cup parent_set.tx_ids,
                                result.total_fee + parent_set.total_fee,
                                result.total_size + parent_set.total_size))

\* the sum of a field over the stored transactions with the given ids
RECURSIVE SumSizes(_, _)
SumSizes(m, ids) ==
    IF ids = {} THEN 0
    ELSE LET x == CHOOSE y \in ids : TRUE
         IN get_transaction(m, x).size + SumSizes(m, ids \ {x})

\* a variant that leaves the fees of the selected transactions out
NoFees(m, ids) == 0

RECURSIVE SumFees(_, _)
SumFees(m, ids) ==
    IF ids = {} THEN 0
    ELSE LET x == CHOOSE y \in ids : TRUE
         IN get_transaction(m, x).fee + SumFees(m, ids \ {x})

\* list(a_set): the elements in the order the interpreter's hash table
\* yields them, given as a sequence that ranks the ids
ListOfSet(ids, hash_order) ==
    LET F[i \in 0..Len(hash_order)] ==
            IF i = 0 THEN <<>>
            ELSE IF hash_order[i] \in ids THEN Append(F[i - 1], hash_order[i])
                 ELSE F[i - 1]
    IN F[Len(hash_order)]

\* the selection loop of ancestor_set_mining from position i of the sorted
\* ancestor sets
RECURSIVE AncestorLoop(_, _, _, _, _, _, _, _)
AncestorLoop(m, max_block_size, hash_order, sets, i, selected, current_size, total_fee) ==
    IF i > Len(sets)
    THEN Returned(ListOfSet(selected, hash_order), total_fee, current_size)
    ELSE IF sets[i].item.tx_id \in selected
         THEN AncestorLoop(m, max_block_size, hash_order, sets, i + 1, selected,
                           current_size, total_fee)
         ELSE LET missing_ancestors == sets[i].item.ancestor_set.tx_ids \ selected
                  missing_size == SumSizes(m, missing_ancestors)
              IN IF current_size + missing_size <= max_block_size
                 THEN AncestorLoop(m, max_block_size, hash_order, sets, i + 1,
                                   selected \cup missing_ancestors,
                                   current_size + missing_size,
                                   total_fee + SumFees(m, missing_ancestors))
                 ELSE AncestorLoop(m, max_block_size, hash_order, sets, i + 1,
                                   selected, current_size, total_fee)

\* the list of (tx_id, ancestor_set) for tx_id in mempool.transactions
ancestor_sets(m) ==
    [i \in 1..Len(m) |->
        [tx_id |-> m[i].tx_id,
         ancestor_set |-> calculate_ancestor_set(m[i].tx_id, m, {})]]

\* ancestor_set_mining(mempool, max_block_size); the order of the returned
\* list(selected) is the hash table's
ancestor_set_mining(m, max_block_size, hash_order) ==
    LET sets == ancestor_sets(m)
    IN IF \E i \in 1..Len(sets) : sets[i].ancestor_set.failed
       THEN Raised("RecursionError")
       ELSE AncestorLoop(m, max_block_size, hash_order,
                SortDescending([i \in 1..Len(sets) |->
                    [key |-> score(sets[i].ancestor_set), item |-> sets[i]]]),
                1, {}, 0, 0)

\* the larger of two numbers
\* the smaller of two numbers
Smaller(a, b) == IF a >= b THEN b ELSE a

Max(a, b) == IF a >= b THEN a ELSE b

\* the transactions dp_knapsack_selection works on: those without parents,
\* cut to the DpLimit of highest fee per byte when there are more
knapsack_txs(m) ==
    LET all_txs == SelectSeq(m, LAMBDA tx : tx.parents = {})
    IN IF Len(all_txs) > DpLimit
       THEN SubSeq(sorted_txs(all_txs), 1, DpLimit)
       ELSE all_txs

\* the table dp[i][w] of dp_knapsack_selection over the scaled sizes
dp_table(all_txs, max_size_scaled) ==
    LET dp[i \in 0..Len(all_txs)] ==
            [w \in 0..max_size_scaled |->
                IF i = 0 THEN 0
                ELSE LET tx_size_scaled == all_txs[i].size \div scale
                     IN IF tx_size_scaled <= w
                        THEN Max(dp[i - 1][w],
                                 dp[i - 1][w - tx_size_scaled] + all_txs[i].fee)
                        ELSE dp[i - 1][w]]
    IN dp

\* the backtracking loop of dp_knapsack_selection, from item i down to 1
RECURSIVE Backtrack(_, _, _, _, _, _)
Backtrack(all_txs, dp, i, w, selected, total_size) ==
    IF i = 0 THEN [selected |-> selected, total_size |-> total_size]
    ELSE IF dp[i][w] # dp[i - 1][w]
         THEN Backtrack(all_txs, dp, i - 1, w - (all_txs[i].size \div scale),
                        Append(selected, all_txs[i].tx_id),
                        total_size + all_txs[i].size)
         ELSE Backtrack(all_txs, dp, i - 1, w, selected, total_size)

\* dp_knapsack_selection(mempool, max_block_size)
dp_knapsack_selection(m, max_block_size) ==
    LET all_txs == knapsack_txs(m)
        n == Len(all_txs)
        max_size_scaled == max_block_size \div scale
        dp == dp_table(all_txs, max_size_scaled)
        back == Backtrack(all_txs, dp, n, max_size_scaled, <<>>, 0)
    IN Returned(back.selected, dp[n][max_size_scaled], back.total_size)

(* Simulated annealing.  The random module is the sequence of its draws,    *)
(* given by a seed: draw k is digit k of the seed in base RandomSteps, as a *)
(* number u standing for the float u / RandomSteps.                         *)

\* b to the power e
RECURSIVE Power(_, _)
Power(b, e) == IF e = 0 THEN 1 ELSE b * Power(b, e - 1)

\* draw number k (from 1) of the sequence of the seed
Draw(seed, k) == (seed \div Power(RandomSteps, k - 1)) % RandomSteps

\* random.random() < 0.5
BelowHalf(u) == 2 * u < RandomSteps

\* random.choice(items)
random_choice(items, u) == items[((u * Len(items)) \div RandomSteps) + 1]

RECURSIVE Gcd(_, _)
Gcd(a, b) == IF b = 0 THEN a ELSE Gcd(b, a % b)

\* temperature *= cooling_rate, on the fraction <<numerator, denominator>>
\* in lowest terms
CoolDown(temperature) ==
    LET g1 == Gcd(temperature[1], cooling_rate[2])
        g2 == Gcd(cooling_rate[1], temperature[2])
    IN <<(temperature[1] \div g1) * (cooling_rate[1] \div g2),
         (temperature[2] \div g2) * (cooling_rate[2] \div g1)>>

\* a probability of 1 at every temperature
AcceptAlways(delta, temperature) == <<1, 1>>

\* min(1.0, float(delta) / temperature) if temperature > 0 else 0
acceptance_prob(delta, temperature) ==
    IF temperature[1] > 0
    THEN IF delta * temperature[2] >= temperature[1]
         THEN <<1, 1>>
         ELSE <<delta * temperature[2], temperature[1]>>
    ELSE <<0, 1>>

\* random.random() < acceptance_prob
BelowProb(u, prob) == u * prob[2] < prob[1] * RandomSteps

\* is_valid_selection(selected_ids)
is_valid_selection(m, selected_ids) ==
    \A tx_id \in selected_ids : get_transaction(m, tx_id).parents \subseteq selected_ids

\* the ids that leave the neighbor with to_remove: to_remove and, along
\* children, the ids still in the neighbor
RECURSIVE RemovedWith(_, _, _)
RemovedWith(m, neighbor, removed) ==
    LET more == UNION {get_transaction(m, x).children : x \in removed}
                    \cap (neighbor \ removed)
    IN IF more = {} THEN removed ELSE RemovedWith(m, neighbor, removed \cup more)

\* to_add_set: to_add and, along parents, the ids that are neither in the
\* neighbor nor in the set yet; an id that is not stored has no entry in
\* tx_dict and ends the walk
RECURSIVE ParentsToAdd(_, _, _)
ParentsToAdd(m, neighbor, to_add_set) ==
    LET more == UNION {get_transaction(m, x).parents : x \in to_add_set \cap TxIdsOf(m)}
                    \ (neighbor \cup to_add_set)
    IN IF more = {} THEN to_add_set ELSE ParentsToAdd(m, neighbor, to_add_set \cup more)

\* the neighbor of one iteration, with the number of draws it took; failed
\* when tx_dict[tx_id] raises KeyError
NeighborOf(m, max_block_size, hash_order, current_selection, seed, k) ==
    IF BelowHalf(Draw(seed, k)) /\ current_selection # {}
    THEN LET to_remove == random_choice(ListOfSet(current_selection, hash_order),
                                        Draw(seed, k + 1))
         IN [failed |-> FALSE, draws |-> 2,
             neighbor |-> current_selection
                            \ RemovedWith(m, current_selection \ {to_remove}, {to_remove})]
    ELSE LET candidates == SelectSeq(m, LAMBDA tx : tx.tx_id \notin current_selection)
         IN IF candidates = <<>>
            THEN [failed |-> FALSE, draws |-> 1, neighbor |-> current_selection]
            ELSE LET to_add == random_choice(candidates, Draw(seed, k + 1))
                     to_add_set == ParentsToAdd(m, current_selection, {to_add.tx_id})
                 IN IF ~(to_add_set \subseteq TxIdsOf(m))
                    THEN [failed |-> TRUE, draws |-> 2, neighbor |-> current_selection]
                    ELSE IF SumSizes(m, current_selection) + SumSizes(m, to_add_set)
                               <= max_block_size
                         THEN [failed |-> FALSE, draws |-> 2,
                               neighbor |-> current_selection \cup to_add_set]
                         ELSE [failed |-> FALSE, draws |-> 2,
                               neighbor |-> current_selection]

\* Op(x), with x evaluated once
Eager(x, Op(_)) == CHOOSE r \in {Op(v) : v \in {x}} : TRUE

\* calculate_score(selected_ids)
calculate_score(m, selected_ids) ==
    [total_fee |-> SumFees(m, selected_ids), total_size |-> SumSizes(m, selected_ids)]

\* one iteration of simulated_annealing_selection on the loop's variables:
\* k is the next draw, held the selections that were the current one so far
AnnealStep(m, max_block_size, hash_order, seed, st) ==
    Eager(NeighborOf(m, max_block_size, hash_order, st.current_selection, seed, st.k),
          LAMBDA n :
            LET evaluated == is_valid_selection(m, n.neighbor)
                               /\ calculate_score(m, n.neighbor).total_size
                                    <= max_block_size
                neighbor_fee == calculate_score(m, n.neighbor).total_fee
                neighbor_size == calculate_score(m, n.neighbor).total_size
                better == evaluated /\ neighbor_fee > st.current_fee
                \* the draw of the else branch
                third == evaluated /\ ~better
                accepted == \/ better
                            \/ /\ third
                               /\ BelowProb(Draw(seed, st.k + n.draws),
                                            acceptance_prob(neighbor_fee - st.current_fee,
                                                            st.temperature))
                improved == better /\ neighbor_fee > st.best_fee
            IN IF n.failed THEN [st EXCEPT !.raised = "KeyError"]
               ELSE [raised |-> "none",
                     iteration |-> st.iteration + 1,
                     k |-> st.k + n.draws + (IF third THEN 1 ELSE 0),
                     current_selection |->
                         IF accepted THEN n.neighbor ELSE st.current_selection,
                     current_fee |-> IF accepted THEN neighbor_fee ELSE st.current_fee,
                     current_size |-> IF accepted THEN neighbor_size ELSE st.current_size,
                     best_selection |-> IF improved THEN n.neighbor ELSE st.best_selection,
                     best_fee |-> IF improved THEN neighbor_fee ELSE st.best_fee,
                     temperature |-> CoolDown(st.temperature),
                     held |-> Append(st.held,
                                [selection |-> IF accepted THEN n.neighbor
                                               ELSE st.current_selection,
                                 fee |-> IF accepted THEN neighbor_fee
                                         ELSE st.current_fee])])

\* for iteration in range(iterations)
RECURSIVE AnnealLoop(_, _, _, _, _, _)
AnnealLoop(m, max_block_size, hash_order, iterations, seed, st) ==
    IF st.raised # "none" \/ st.iteration = iterations THEN st
    ELSE Eager(AnnealStep(m, max_block_size, hash_order, seed, st),
               LAMBDA next : AnnealLoop(m, max_block_size, hash_order, iterations,
                                        seed, next))

\* simulated_annealing_selection(mempool, max_block_size, iterations), with
\* the draws of the random module and the order of the sets of ids
simulated_annealing_selection(m, max_block_size, iterations, seed, hash_order) ==
    Eager(Range(greedy_selection(m, max_block_size).selected),
          LAMBDA initial_selected :
            Eager(AnnealLoop(m, max_block_size, hash_order, iterations, seed,
                             [raised |-> "none", iteration |-> 0, k |-> 1,
                              current_selection |-> initial_selected,
                              current_fee |-> calculate_score(m, initial_selected).total_fee,
                              current_size |-> calculate_score(m, initial_selected).total_size,
                              best_selection |-> initial_selected,
                              best_fee |-> calculate_score(m, initial_selected).total_fee,
                              temperature |-> initial_temperature,
                              held |-> <<[selection |-> initial_selected,
                                          fee |-> calculate_score(m, initial_selected).total_fee]>>]),
                  LAMBDA end :
                    [held |-> end.held,
                     result |->
                        IF end.raised # "none" THEN Raised(end.raised)
                        ELSE Returned(ListOfSet(end.best_selection, hash_order),
                                      end.best_fee,
                                      SumSizes(m, end.best_selection))]))

(* The transactions a caller hands to Mempool.add_transaction: a parent P, *)
(* its child C that pays a higher fee rate, W and Z without parents; and    *)
(* P declared as a child of C, W with a parent X that is never added, W as  *)
(* a child of both P and C.                                                 *)
TxIds == {"P", "C", "W", "Z"}

CallerMempoolTransactions ==
    { MempoolTransaction("P", 10, 200, {}),
      MempoolTransaction("P", 10, 200, {"C"}),
      MempoolTransaction("C", 11, 200, {"P"}),
      MempoolTransaction("W", 12, 300, {}),
      MempoolTransaction("W", 12, 300, {"X"}),
      MempoolTransaction("W", 12, 300, {"P", "C"}),
      MempoolTransaction("Z", 5, 1500, {}) }

MempoolAdd ==
    \E tx \in CallerMempoolTransactions :
        /\ mempool' = Mempool_add_transaction(mempool, tx)
        /\ last' = [op |-> "Mempool.add_transaction", arg |-> tx, ret |-> "none"]
        /\ UNCHANGED <<chain, pending_transactions, utxos, clock, tampered>>

MempoolRemove ==
    \E tx_id \in TxIds :
        /\ mempool' = Mempool_remove_transaction(mempool, tx_id)
        /\ last' = [op |-> "Mempool.remove_transaction", arg |-> tx_id, ret |-> "none"]
        /\ UNCHANGED <<chain, pending_transactions, utxos, clock, tampered>>

\* the block sizes a caller asks for
Budgets == {400, 500, 1000, 2500}

\* two orders in which the interpreter's hash table may yield the ids
HashOrders == {<<"P", "C", "W", "Z">>, <<"Z", "W", "C", "P">>}

GreedySelection ==
    \E max_block_size \in Budgets :
        /\ last' = [op |-> "greedy_selection", arg |-> max_block_size,
                    ret |-> greedy_selection(mempool, max_block_size)]
        /\ UNCHANGED <<chain, pending_transactions, utxos, clock, tampered, mempool>>

KnapsackSelection ==
    \E max_block_size \in Budgets :
        /\ last' = [op |-> "dp_knapsack_selection", arg |-> max_block_size,
                    ret |-> dp_knapsack_selection(mempool, max_block_size)]
        /\ UNCHANGED <<chain, pending_transactions, utxos, clock, tampered, mempool>>

AncestorSetMining ==
    \E max_block_size \in Budgets, hash_order \in HashOrders :
        /\ last' = [op |-> "ancestor_set_mining", arg |-> max_block_size,
                    ret |-> ancestor_set_mining(mempool, max_block_size, hash_order)]
        /\ UNCHANGED <<chain, pending_transactions, utxos, clock, tampered, mempool>>

\* the call made after random.seed(seed)
SimulatedAnnealing ==
    \E max_block_size \in Budgets, iterations \in 0..MaxIterations,
       seed \in 0..MaxSeed, hash_order \in HashOrders :
        LET run == simulated_annealing_selection(mempool, max_block_size, iterations,
                                                 seed, hash_order)
        IN /\ last' = [op |-> "simulated_annealing_selection",
                       arg |-> [max_block_size |-> max_block_size,
                                iterations |-> iterations, seed |-> seed],
                       ret |-> run.result, held |-> run.held]
           /\ UNCHANGED <<chain, pending_transactions, utxos, clock, tampered, mempool>>

\* a mempool of up to MaxCalls - 2 transactions, then one selection
NextAnneal ==
    \/ Call(MaxCalls - 2) /\ MempoolAdd /\ UNCHANGED interpreter
    \/ LastCall(MaxCalls - 1) /\ SimulatedAnnealing /\ UNCHANGED interpreter

SpecAnneal == Init /\ [][NextAnneal]_vars

NextMempool ==
    \/ Call(MaxCalls) /\ MempoolAdd /\ UNCHANGED interpreter
    \/ Call(MaxCalls) /\ MempoolRemove /\ UNCHANGED interpreter
    \/ LastCall(MaxCalls) /\ GreedySelection /\ UNCHANGED interpreter
    \/ LastCall(MaxCalls) /\ KnapsackSelection /\ UNCHANGED interpreter
    \/ LastCall(MaxCalls) /\ AncestorSetMining /\ UNCHANGED interpreter

SpecMempool == Init /\ [][NextMempool]_vars

(* Scenario S5: a parent P that pays little, its child C that pays much,  *)
(* and S5Count transactions without parents that pay more per byte than   *)
(* the package of P and C.                                                 *)
S5Transactions ==
    <<MempoolTransaction("P", 1000, 400, {}),
      MempoolTransaction("C", 80000, 300, {"P"})>>
    \o [i \in 1..S5Count |-> MempoolTransaction("T" \o ToString(i), 50000, 400, {})]

\* the ids of the transactions without parents other than P
S5Plain == {S5Transactions[i].tx_id : i \in 3..Len(S5Transactions)}

\* an order in which the interpreter's hash table may yield the ids
S5Order == [i \in 1..Len(S5Transactions) |-> S5Transactions[i].tx_id]

\* every size of the scenario is a multiple of 100, so a positive budget
\* selects what the budget 100 * k + 50 next to it selects, and a budget
\* above the last of these selects what the last one selects (all fits)
S5Budgets == {100 * k + 50 : k \in 0..(4 * S5Count + 12)}

\* the caller adds the transactions of the scenario one after the other
ScenarioAdd ==
    /\ Len(mempool) < Len(S5Transactions)
    /\ last.op \in {"none", "Mempool.add_transaction"}
    /\ mempool' = Mempool_add_transaction(mempool, S5Transactions[Len(mempool) + 1])
    /\ last' = [op |-> "Mempool.add_transaction",
                arg |-> S5Transactions[Len(mempool) + 1], ret |-> "none"]
    /\ UNCHANGED <<chain, pending_transactions, utxos, clock, tampered, calls>>

ScenarioGreedy ==
    /\ Len(mempool) = Len(S5Transactions)
    /\ last.op = "Mempool.add_transaction"
    /\ \E max_block_size \in S5Budgets :
           last' = [op |-> "greedy_selection", arg |-> max_block_size,
                    ret |-> greedy_selection(mempool, max_block_size)]
    /\ UNCHANGED <<chain, pending_transactions, utxos, clock, tampered, mempool, calls>>

ScenarioAncestorSetMining ==
    /\ Len(mempool) = Len(S5Transactions)
    /\ last.op = "Mempool.add_transaction"
    /\ \E max_block_size \in S5Budgets :
           last' = [op |-> "ancestor_set_mining", arg |-> max_block_size,
                    ret |-> ancestor_set_mining(mempool, max_block_size, S5Order)]
    /\ UNCHANGED <<chain, pending_transactions, utxos, clock, tampered, mempool, calls>>

\* the scenario's mempool, then one selection
NextScenario ==
    \/ ScenarioAdd /\ UNCHANGED interpreter
    \/ ScenarioGreedy /\ UNCHANGED interpreter
    \/ ScenarioAncestorSetMining /\ UNCHANGED interpreter

SpecScenario == Init /\ [][NextScenario]_vars

-----------------------------------------------------------------------------
(* The script engine (src/Bitcoin_Scripts/bitcoin_scripts.py).  A byte     *)
(* string is the sequence of its bytes, each a number in 0..255.           *)

\* hashlib: a digest of n bytes.  Its first two bytes carry a checksum of
\* the data in which every byte weighs an odd factor, so that two strings
\* that differ in one byte have different digests; the other bytes are 0.
Digest(salt, n, data) ==
    LET \* the weighted bytes of data[lo..hi], added up by halves
        S[lo \in 1..(Len(data) + 1), hi \in 0..Len(data)] ==
            IF lo > hi THEN 0
            ELSE IF lo = hi THEN data[lo] * (2 * lo + 1)
            ELSE S[lo, (lo + hi) \div 2] + S[((lo + hi) \div 2) + 1, hi]
        sum == (salt + S[1, Len(data)]) % 65536
    IN [k \in 1..n |-> IF k = 1 THEN sum % 256 ELSE IF k = 2 THEN sum \div 256 ELSE 0]

\* sha256(data)
sha256(data) == Digest(1, 32, data)

\* hash256(data)
hash256(data) == sha256(sha256(data))

\* hash160(data)
hash160(data) == Digest(2, 20, sha256(data))

\* sign_message(private_key, message)
sign_message(private_key, message) == Digest(3, 32, private_key \o message)

\* verify_signature(public_key, message, signature): `expected` is computed
\* and never read
verify_signature(public_key, message, signature) ==
    Len(signature) = 32 /\ Len(public_key) = 32

\* class OpCode: the members the engine and the templates name
OpCode ==
    [OP_0 |-> 0, OP_PUSHDATA1 |-> 76, OP_PUSHDATA2 |-> 77, OP_PUSHDATA4 |-> 78,
     OP_1NEGATE |-> 79, OP_1 |-> 81, OP_16 |-> 96, OP_NOP |-> 97, OP_IF |-> 99,
     OP_NOTIF |-> 100, OP_ELSE |-> 103, OP_ENDIF |-> 104, OP_VERIFY |-> 105,
     OP_RETURN |-> 106, OP_2DUP |-> 110, OP_3DUP |-> 111, OP_DROP |-> 117,
     OP_DUP |-> 118, OP_OVER |-> 120, OP_ROT |-> 123, OP_SWAP |-> 124,
     OP_EQUAL |-> 135, OP_EQUALVERIFY |-> 136, OP_1ADD |-> 139, OP_1SUB |-> 140,
     OP_ADD |-> 147, OP_SUB |-> 148, OP_SHA256 |-> 168, OP_HASH160 |-> 169,
     OP_HASH256 |-> 170, OP_CHECKSIG |-> 172, OP_CHECKSIGVERIFY |-> 173,
     OP_CHECKMULTISIG |-> 174, OP_NOP1 |-> 176, OP_CHECKLOCKTIMEVERIFY |-> 177,
     OP_CHECKSEQUENCEVERIFY |-> 178, OP_NOP4 |-> 179, OP_NOP5 |-> 180,
     OP_NOP6 |-> 181, OP_NOP7 |-> 182, OP_NOP8 |-> 183, OP_NOP9 |-> 184,
     OP_NOP10 |-> 185]

\* the items of Script.opcodes: a bytes object (a push payload) or an int
PushItem(data) == [kind |-> "bytes", value |-> data]

OpcodeItem(opcode) == [kind |-> "int", value |-> opcode]

\* Script.serialize: the bytes, or the exception struct.pack or bytes()
\* raises
serialize(opcodes) ==
    LET Piece(op) ==
            IF op.kind = "bytes"
            THEN LET length == Len(op.value)
                 IN IF length < 76 THEN <<length>> \o op.value
                    ELSE IF length <= 255
                         THEN <<OpCode.OP_PUSHDATA1, length>> \o op.value
                         ELSE <<OpCode.OP_PUSHDATA2, length % 256, length \div 256>>
                              \o op.value
            ELSE <<op.value>>
        F[i \in 0..Len(opcodes)] ==
            IF i = 0 THEN <<>> ELSE F[i - 1] \o Piece(opcodes[i])
    IN IF \E i \in 1..Len(opcodes) :
             opcodes[i].kind = "bytes" /\ Len(opcodes[i].value) > 65535
       THEN [raised |-> "struct.error", data |-> <<>>]
       ELSE IF \E i \in 1..Len(opcodes) :
                  opcodes[i].kind = "int" /\ opcodes[i].value \notin 0..255
            THEN [raised |-> "ValueError", data |-> <<>>]
            ELSE [raised |-> "none", data |-> F[Len(opcodes)]]

\* Script.deserialize: the items, or the exception data[i] (IndexError) or
\* struct.unpack (struct.error) raises.  A slice data[i:i+length] that
\* reaches beyond the end is the bytes that are there.
deserialize(data) ==
    LET end == Len(data)
        Rest[i \in 1..(end + 1)] ==
            IF i > end THEN [raised |-> "none", opcodes |-> <<>>]
            ELSE LET opcode == data[i]
                     Push(from, length) ==
                         LET to == IF from + length - 1 > end THEN end
                                   ELSE from + length - 1
                             rest == Rest[IF from + length > end THEN end + 1
                                          ELSE from + length]
                         IN IF rest.raised # "none" THEN rest
                            ELSE [raised |-> "none",
                                  opcodes |-> <<PushItem(SubSeq(data, from, to))>>
                                              \o rest.opcodes]
                 IN IF opcode < OpCode.OP_PUSHDATA1 THEN Push(i + 1, opcode)
                    ELSE IF opcode = OpCode.OP_PUSHDATA1
                         THEN IF i + 1 > end
                              THEN [raised |-> "IndexError", opcodes |-> <<>>]
                              ELSE Push(i + 2, data[i + 1])
                    ELSE IF opcode = OpCode.OP_PUSHDATA2
                         THEN IF i + 2 > end
                              THEN [raised |-> "struct.error", opcodes |-> <<>>]
                              ELSE Push(i + 3, data[i + 1] + 256 * data[i + 2])
                    ELSE LET rest == Rest[i + 1]
                         IN IF rest.raised # "none" THEN rest
                            ELSE [raised |-> "none",
                                  opcodes |-> <<OpcodeItem(opcode)>> \o rest.opcodes]
    IN Rest[1]

\* ScriptInterpreter(transaction_context)
ScriptInterpreter(transaction_context) ==
    [stack |-> <<>>, alt_stack |-> <<>>, transaction_context |-> transaction_context]

\* a lookup that finds nothing in the context
GetDefault(transaction_context, key, default) == default

\* transaction_context.get(key, default)
get(transaction_context, key, default) ==
    IF key \in DOMAIN transaction_context THEN transaction_context[key] ELSE default

\* a cast that knows no negative zero
CastNonEmpty(data) == Len(data) # 0

\* ScriptInterpreter._cast_to_bool
_cast_to_bool(data) ==
    IF Len(data) = 0 THEN FALSE
    ELSE IF data = <<128>> THEN FALSE
    ELSE TRUE

\* the loop of _encode_num: the bytes of n > 0, lowest first
RECURSIVE LittleEndian(_)
LittleEndian(n) == IF n > 0 THEN <<n % 256>> \o LittleEndian(n \div 256) ELSE <<>>

\* an encoding of the magnitude alone
EncodeMagnitude(n) == LittleEndian(IF n < 0 THEN -n ELSE n)

\* ScriptInterpreter._encode_num
_encode_num(n) ==
    IF n = 0 THEN <<>>
    ELSE LET negative == n < 0
             result == LittleEndian(IF negative THEN -n ELSE n)
             high == result[Len(result)]
         IN IF high >= 128 THEN Append(result, IF negative THEN 128 ELSE 0)
            ELSE IF negative THEN [result EXCEPT ![Len(result)] = high + 128]
            ELSE result

\* a decoding that drops the sign
DecodeMagnitude(data) ==
    LET V[i \in 1..(Len(data) + 1)] ==
            IF i > Len(data) THEN 0
            ELSE (IF i = Len(data) THEN data[i] % 128 ELSE data[i]) + 256 * V[i + 1]
    IN V[1]

\* ScriptInterpreter._decode_num
_decode_num(data) ==
    IF Len(data) = 0 THEN 0
    ELSE LET negative == data[Len(data)] >= 128
             stripped == [data EXCEPT ![Len(data)] = @ % 128]
             \* the bytes from position i on, as a number
             V[i \in 1..(Len(data) + 1)] ==
                 IF i > Len(data) THEN 0 ELSE stripped[i] + 256 * V[i + 1]
         IN IF negative THEN -V[1] ELSE V[1]

\* what running an opcode does to the stack: it returns, or raises ScriptError
Done(stack) == [error |-> "none", stack |-> stack]

ScriptError(message, stack) == [error |-> message, stack |-> stack]

\* OP_CHECKMULTISIG as it would be without the additional pop
CheckMultisigExactPops(stack, tx_data) ==
    LET size == Len(stack)
        n == IF size < 1 THEN 0 ELSE _decode_num(stack[size])
        count_n == IF n > 0 THEN n ELSE 0
        m == IF size < count_n + 2 THEN 0 ELSE _decode_num(stack[size - count_n - 1])
        count_m == IF m > 0 THEN m ELSE 0
        I[j \in 0..count_n] ==
            IF j = 0 THEN 0
            ELSE LET sig_index == I[j - 1]
                 IN IF sig_index >= count_m THEN sig_index
                    ELSE IF verify_signature(stack[size - count_n - 1 + j], tx_data,
                                             stack[size - count_n - 2 - sig_index])
                         THEN sig_index + 1
                         ELSE sig_index
    IN IF size < count_n + count_m + 2
       THEN ScriptError("OP_CHECKMULTISIG: stack underflow", stack)
       ELSE Done(Append(SubSeq(stack, 1, size - count_n - count_m - 2),
                        IF I[count_n] = m THEN <<1>> ELSE <<>>))

\* the OP_CHECKMULTISIG branch of _execute_opcode
OP_CHECKMULTISIG(stack, tx_data) ==
    IF Len(stack) < 1 THEN ScriptError("OP_CHECKMULTISIG: stack underflow", stack)
    ELSE
    LET n == _decode_num(stack[Len(stack)])
        s1 == SubSeq(stack, 1, Len(stack) - 1)
    IN
    IF Len(s1) < n THEN ScriptError("OP_CHECKMULTISIG: not enough public keys", s1)
    ELSE
    LET \* [self.stack.pop() for _ in range(n)]
        count_n == IF n > 0 THEN n ELSE 0
        pubkeys == [j \in 1..count_n |-> s1[Len(s1) - j + 1]]
        s2 == SubSeq(s1, 1, Len(s1) - count_n)
    IN
    IF Len(s2) < 1 THEN ScriptError("OP_CHECKMULTISIG: stack underflow", s2)
    ELSE
    LET m == _decode_num(s2[Len(s2)])
        s3 == SubSeq(s2, 1, Len(s2) - 1)
    IN
    IF Len(s3) < m THEN ScriptError("OP_CHECKMULTISIG: not enough signatures", s3)
    ELSE
    LET count_m == IF m > 0 THEN m ELSE 0
        signatures == [j \in 1..count_m |-> s3[Len(s3) - j + 1]]
        s4 == SubSeq(s3, 1, Len(s3) - count_m)
    IN
    IF Len(s4) < 1 THEN ScriptError("OP_CHECKMULTISIG: stack underflow (bug)", s4)
    ELSE
    LET s5 == SubSeq(s4, 1, Len(s4) - 1)
        \* sig_index after the first j public keys of reversed(pubkeys)
        I[j \in 0..count_n] ==
            IF j = 0 THEN 0
            ELSE LET sig_index == I[j - 1]
                 IN IF sig_index >= Len(signatures) THEN sig_index
                    ELSE IF verify_signature(pubkeys[count_n - j + 1], tx_data,
                                             signatures[sig_index + 1])
                         THEN sig_index + 1
                         ELSE sig_index
        valid == I[count_n] = m
    IN Done(Append(s5, IF valid THEN <<1>> ELSE <<>>))

\* ScriptInterpreter._execute_opcode on the stack; now is int(time.time())
_execute_opcode(opcode, stack, transaction_context, now) ==
    LET size == Len(stack)
        \* self.stack[-k]
        At(k) == stack[size - k + 1]
        \* the stack without its k top elements
        Below(k) == SubSeq(stack, 1, size - k)
        Underflow == ScriptError("stack underflow", stack)
        tx_data == get(transaction_context, "tx_data", <<>>)
    IN
    IF OpCode.OP_0 <= opcode /\ opcode <= OpCode.OP_16
    THEN IF opcode = OpCode.OP_0 THEN Done(Append(stack, <<>>))
         ELSE Done(Append(stack, _encode_num(opcode - OpCode.OP_1 + 1)))
    ELSE IF opcode = OpCode.OP_NOP THEN Done(stack)
    ELSE IF opcode = OpCode.OP_VERIFY
    THEN IF size < 1 THEN Underflow
         ELSE IF ~_cast_to_bool(At(1))
              THEN ScriptError("OP_VERIFY: verify failed", stack)
              ELSE Done(Below(1))
    ELSE IF opcode = OpCode.OP_RETURN
    THEN ScriptError("OP_RETURN: script failed", stack)
    ELSE IF opcode = OpCode.OP_DUP
    THEN IF size < 1 THEN Underflow ELSE Done(Append(stack, At(1)))
    ELSE IF opcode = OpCode.OP_DROP
    THEN IF size < 1 THEN Underflow ELSE Done(Below(1))
    ELSE IF opcode = OpCode.OP_SWAP
    THEN IF size < 2 THEN Underflow ELSE Done(Below(2) \o <<At(1), At(2)>>)
    ELSE IF opcode = OpCode.OP_2DUP
    THEN IF size < 2 THEN Underflow ELSE Done(stack \o <<At(2), At(1)>>)
    ELSE IF opcode = OpCode.OP_3DUP
    THEN IF size < 3 THEN Underflow ELSE Done(stack \o <<At(3), At(2), At(1)>>)
    ELSE IF opcode = OpCode.OP_OVER
    THEN IF size < 2 THEN Underflow ELSE Done(Append(stack, At(2)))
    ELSE IF opcode = OpCode.OP_ROT
    THEN IF size < 3 THEN Underflow ELSE Done(Below(3) \o <<At(2), At(1), At(3)>>)
    ELSE IF opcode = OpCode.OP_EQUAL
    THEN IF size < 2 THEN Underflow
         ELSE Done(Append(Below(2), IF At(1) = At(2) THEN <<1>> ELSE <<>>))
    ELSE IF opcode = OpCode.OP_EQUALVERIFY
    THEN IF size < 2 THEN Underflow
         ELSE IF At(1) # At(2)
              THEN ScriptError("OP_EQUALVERIFY: equality check failed", Below(2))
              ELSE Done(Below(2))
    ELSE IF opcode = OpCode.OP_1ADD
    THEN IF size < 1 THEN Underflow
         ELSE Done(Append(Below(1), _encode_num(_decode_num(At(1)) + 1)))
    ELSE IF opcode = OpCode.OP_1SUB
    THEN IF size < 1 THEN Underflow
         ELSE Done(Append(Below(1), _encode_num(_decode_num(At(1)) - 1)))
    ELSE IF opcode = OpCode.OP_ADD
    THEN IF size < 2 THEN Underflow
         ELSE Done(Append(Below(2),
                          _encode_num(_decode_num(At(2)) + _decode_num(At(1)))))
    ELSE IF opcode = OpCode.OP_SUB
    THEN IF size < 2 THEN Underflow
         ELSE Done(Append(Below(2),
                          _encode_num(_decode_num(At(2)) - _decode_num(At(1)))))
    ELSE IF opcode = OpCode.OP_SHA256
    THEN IF size < 1 THEN Underflow ELSE Done(Append(Below(1), sha256(At(1))))
    ELSE IF opcode = OpCode.OP_HASH160
    THEN IF size < 1 THEN Underflow ELSE Done(Append(Below(1), hash160(At(1))))
    ELSE IF opcode = OpCode.OP_HASH256
    THEN IF size < 1 THEN Underflow ELSE Done(Append(Below(1), hash256(At(1))))
    ELSE IF opcode = OpCode.OP_CHECKSIG
    THEN IF size < 2 THEN Underflow
         ELSE Done(Append(Below(2),
                          IF verify_signature(At(1), tx_data, At(2))
                          THEN <<1>> ELSE <<>>))
    ELSE IF opcode = OpCode.OP_CHECKSIGVERIFY
    THEN IF size < 2 THEN Underflow
         ELSE IF ~verify_signature(At(1), tx_data, At(2))
              THEN ScriptError("OP_CHECKSIGVERIFY: signature verification failed",
                               Below(2))
              ELSE Done(Below(2))
    ELSE IF opcode = OpCode.OP_CHECKMULTISIG
    THEN OP_CHECKMULTISIG(stack, tx_data)
    ELSE IF opcode = OpCode.OP_CHECKLOCKTIMEVERIFY
    THEN IF size < 1 THEN Underflow
         ELSE LET locktime == _decode_num(At(1))
                  current_time == get(transaction_context, "current_time", now)
              IN IF locktime < 500000000
                 THEN IF locktime > get(transaction_context, "block_height", 0)
                      THEN ScriptError("OP_CHECKLOCKTIMEVERIFY: locktime not met (block height)",
                                       stack)
                      ELSE Done(stack)
                 ELSE IF locktime > current_time
                      THEN ScriptError("OP_CHECKLOCKTIMEVERIFY: locktime not met (timestamp)",
                                       stack)
                      ELSE Done(stack)
    ELSE IF opcode = OpCode.OP_CHECKSEQUENCEVERIFY
    THEN IF size < 1 THEN Underflow
         ELSE LET sequence == _decode_num(At(1))
              IN IF sequence < 0
                 THEN ScriptError("OP_CHECKSEQUENCEVERIFY: negative sequence", stack)
                 \* sequence > tx_sequence, which is 0xffffffff by default
                 ELSE IF (IF "sequence" \in DOMAIN transaction_context
                          THEN sequence > transaction_context["sequence"]
                          ELSE sequence \div 65536 > 65535)
                      THEN ScriptError("OP_CHECKSEQUENCEVERIFY: sequence not met", stack)
                      ELSE Done(stack)
    ELSE IF opcode \in {OpCode.OP_NOP1, OpCode.OP_NOP4, OpCode.OP_NOP5, OpCode.OP_NOP6,
                        OpCode.OP_NOP7, OpCode.OP_NOP8, OpCode.OP_NOP9, OpCode.OP_NOP10}
    THEN Done(stack)
    ELSE ScriptError("Unknown or unimplemented opcode", stack)

\* ScriptInterpreter.execute(script): the interpreter afterwards, the error
\* that was caught (if any) and the value returned
execute(self, script, now) ==
    LET F[i \in 0..Len(script)] ==
            IF i = 0 THEN Done(self.stack)
            ELSE Eager(F[i - 1], LAMBDA st :
                     IF st.error # "none" THEN st
                     ELSE IF script[i].kind = "bytes"
                          THEN Done(Append(st.stack, script[i].value))
                          ELSE _execute_opcode(script[i].value, st.stack,
                                               self.transaction_context, now))
    IN Eager(F[Len(script)], LAMBDA end :
           [self |-> [self EXCEPT !.stack = end.stack],
            error |-> end.error,
            ret |-> IF end.error # "none" THEN FALSE
                    ELSE IF Len(end.stack) = 0 THEN FALSE
                    ELSE _cast_to_bool(end.stack[Len(end.stack)])])

\* class ScriptTemplates: the script (its items) that the named template
\* builds from its arguments
ScriptTemplates(template, a) ==
    LET p2pkh(pubkey_hash) ==
            <<OpcodeItem(OpCode.OP_DUP), OpcodeItem(OpCode.OP_HASH160),
              PushItem(pubkey_hash), OpcodeItem(OpCode.OP_EQUALVERIFY),
              OpcodeItem(OpCode.OP_CHECKSIG)>>
    IN CASE template = "p2pkh_script_pubkey" -> p2pkh(a.pubkey_hash)
         [] template = "p2pkh_script_sig" ->
                <<PushItem(a.signature), PushItem(a.pubkey)>>
         [] template = "p2sh_script_pubkey" ->
                <<OpcodeItem(OpCode.OP_HASH160), PushItem(a.script_hash),
                  OpcodeItem(OpCode.OP_EQUAL)>>
         [] template = "p2wpkh_script_pubkey" ->
                <<OpcodeItem(OpCode.OP_0), PushItem(a.pubkey_hash)>>
         [] template = "p2wsh_script_pubkey" ->
                <<OpcodeItem(OpCode.OP_0), PushItem(a.script_hash)>>
         [] template = "multisig_script_pubkey" ->
                <<OpcodeItem(a.m + OpCode.OP_1 - 1)>>
                \o [i \in 1..Len(a.pubkeys) |-> PushItem(a.pubkeys[i])]
                \o <<OpcodeItem(Len(a.pubkeys) + OpCode.OP_1 - 1),
                     OpcodeItem(OpCode.OP_CHECKMULTISIG)>>
         [] template = "multisig_script_sig" ->
                <<OpcodeItem(OpCode.OP_0)>>
                \o [i \in 1..Len(a.signatures) |-> PushItem(a.signatures[i])]
         [] template = "timelock_script_cltv" ->
                <<PushItem(_encode_num(a.locktime)),
                  OpcodeItem(OpCode.OP_CHECKLOCKTIMEVERIFY),
                  OpcodeItem(OpCode.OP_DROP)>> \o p2pkh(a.pubkey_hash)
         [] template = "timelock_script_csv" ->
                <<PushItem(_encode_num(a.sequence)),
                  OpcodeItem(OpCode.OP_CHECKSEQUENCEVERIFY),
                  OpcodeItem(OpCode.OP_DROP)>> \o p2pkh(a.pubkey_hash)
         [] template = "htlc_script" ->
                <<OpcodeItem(OpCode.OP_IF), OpcodeItem(OpCode.OP_SHA256),
                  PushItem(a.hash_lock), OpcodeItem(OpCode.OP_EQUALVERIFY),
                  OpcodeItem(OpCode.OP_DUP), OpcodeItem(OpCode.OP_HASH160),
                  PushItem(a.recipient_pubkey_hash), OpcodeItem(OpCode.OP_ELSE),
                  PushItem(_encode_num(a.timeout)),
                  OpcodeItem(OpCode.OP_CHECKLOCKTIMEVERIFY),
                  OpcodeItem(OpCode.OP_DROP), OpcodeItem(OpCode.OP_DUP),
                  OpcodeItem(OpCode.OP_HASH160), PushItem(a.sender_pubkey_hash),
                  OpcodeItem(OpCode.OP_ENDIF), OpcodeItem(OpCode.OP_EQUALVERIFY),
                  OpcodeItem(OpCode.OP_CHECKSIG)>>

(* What the callers hand to the engine.  Keys are made as the demos make    *)
(* them: a private key of 32 equal bytes (its seed), the public key         *)
(* sha256(private ∥ "pubkey"), signatures over tx_data = "msg".             *)

private_key(seed) == [i \in 1..32 |-> seed]

public_key(seed) == sha256(private_key(seed) \o <<112, 117, 98, 107, 101, 121>>)

tx_data == <<109, 115, 103>>

\* the first i public keys
PublicKeys(i) == [seed \in 1..i |-> public_key(seed)]

\* the signatures a caller may push: by the keys 1..MaxKeys, by one more key
\* that no lock lists, and a signature that lost its last byte
CallerSignatures ==
    {sign_message(private_key(seed), tx_data) : seed \in 1..(MaxKeys + 1)}
    \cup {SubSeq(sign_message(private_key(1), tx_data), 1, 31)}

\* multisig_script_sig(signatures) for up to MaxKeys signatures
Unlocks ==
    {ScriptTemplates("multisig_script_sig", [signatures |-> signatures]) :
        signatures \in UNION {[1..k -> CallerSignatures] : k \in 0..MaxKeys}}

\* multisig_script_pubkey(m, pubkeys) for up to MaxKeys keys, and
\* OP_CHECKMULTISIG after counts that are missing or negative
Locks ==
    {ScriptTemplates("multisig_script_pubkey", [m |-> m, pubkeys |-> PublicKeys(n)]) :
        m \in 0..(MaxKeys + 1), n \in 0..MaxKeys}
    \cup {<<OpcodeItem(OpCode.OP_CHECKMULTISIG)>>,
          <<OpcodeItem(OpCode.OP_1NEGATE), OpcodeItem(OpCode.OP_CHECKMULTISIG)>>,
          <<OpcodeItem(OpCode.OP_1NEGATE), OpcodeItem(OpCode.OP_1NEGATE),
            OpcodeItem(OpCode.OP_CHECKMULTISIG)>>}

\* the contexts a caller constructs an interpreter with
Contexts ==
    {<<>>, [tx_data |-> tx_data], [tx_data |-> tx_data, block_height |-> 100],
     [tx_data |-> tx_data, current_time |-> 1999999999],
     [tx_data |-> tx_data, current_time |-> 2000000001],
     [tx_data |-> tx_data, sequence |-> 10]}

\* int(time.time()) at the time of a call
Nows == {1700000000}

\* the scripts a caller executes: pushes, every opcode by itself, opcodes
\* the engine has no branch for, and a few programs
CallerScripts ==
    {<<>>, <<PushItem(<<>>)>>, <<PushItem(<<1>>)>>, <<PushItem(<<128>>)>>,
     <<PushItem(<<0>>)>>}
    \cup {<<OpcodeItem(opcode)>> : opcode \in
            {OpCode.OP_0, OpCode.OP_1, OpCode.OP_1NEGATE, OpCode.OP_NOP,
             OpCode.OP_VERIFY, OpCode.OP_RETURN, OpCode.OP_DUP, OpCode.OP_DROP,
             OpCode.OP_SWAP, OpCode.OP_2DUP, OpCode.OP_3DUP, OpCode.OP_OVER,
             OpCode.OP_ROT, OpCode.OP_EQUAL, OpCode.OP_EQUALVERIFY, OpCode.OP_1ADD,
             OpCode.OP_1SUB, OpCode.OP_ADD, OpCode.OP_SUB, OpCode.OP_SHA256,
             OpCode.OP_HASH160, OpCode.OP_HASH256, OpCode.OP_CHECKSIG,
             OpCode.OP_CHECKSIGVERIFY, OpCode.OP_CHECKMULTISIG,
             OpCode.OP_CHECKLOCKTIMEVERIFY, OpCode.OP_CHECKSEQUENCEVERIFY,
             OpCode.OP_NOP1,
             1, OpCode.OP_PUSHDATA4, 80, OpCode.OP_IF, OpCode.OP_ELSE,
             OpCode.OP_ENDIF, 186}}
    \cup {<<OpcodeItem(80), OpcodeItem(OpCode.OP_1)>>,
          <<OpcodeItem(OpCode.OP_IF), OpcodeItem(OpCode.OP_1)>>,
          <<OpcodeItem(OpCode.OP_1), OpcodeItem(OpCode.OP_RETURN)>>,
          ScriptTemplates("p2pkh_script_sig",
              [signature |-> sign_message(private_key(1), tx_data),
               pubkey |-> public_key(1)]),
          ScriptTemplates("p2pkh_script_pubkey",
              [pubkey_hash |-> hash160(public_key(1))])}

\* the byte strings handed to _decode_num and Script.deserialize
ByteStrings ==
    UNION {[1..k -> {0, 1, 2, 76, 77, 127, 128, 255}] : k \in 0..MaxBytes}

\* the integers handed to _encode_num: the small ones and those around the
\* values where the encoding gets longer
Numbers ==
    (-MaxNumber..MaxNumber)
    \cup {sign * (edge + d) : sign \in {-1, 1}, edge \in {32768, 65536, 8388608},
                              d \in {-1, 0, 1}}

\* scripts built by every template of the catalog
CatalogScripts ==
    LET pubkey_hash == hash160(public_key(1))
        signature == sign_message(private_key(1), tx_data)
        redeem == ScriptTemplates("multisig_script_pubkey",
                                  [m |-> 2, pubkeys |-> PublicKeys(3)])
    IN {ScriptTemplates("p2pkh_script_pubkey", [pubkey_hash |-> pubkey_hash]),
        ScriptTemplates("p2pkh_script_sig",
                        [signature |-> signature, pubkey |-> public_key(1)]),
        ScriptTemplates("p2sh_script_pubkey",
                        [script_hash |-> hash160(serialize(redeem).data)]),
        ScriptTemplates("p2wpkh_script_pubkey", [pubkey_hash |-> pubkey_hash]),
        ScriptTemplates("p2wsh_script_pubkey",
                        [script_hash |-> sha256(serialize(redeem).data)]),
        ScriptTemplates("htlc_script",
                        [hash_lock |-> sha256(<<1, 2, 3>>), timeout |-> 100,
                         recipient_pubkey_hash |-> pubkey_hash,
                         sender_pubkey_hash |-> hash160(public_key(2))])}
       \cup {ScriptTemplates("multisig_script_pubkey",
                             [m |-> m, pubkeys |-> PublicKeys(n)]) :
                m \in 1..MaxKeys, n \in 1..MaxKeys}
       \cup {ScriptTemplates("multisig_script_sig",
                             [signatures |-> [i \in 1..k |-> signature]]) :
                k \in 0..MaxKeys}
       \cup {ScriptTemplates("timelock_script_cltv",
                             [locktime |-> locktime, pubkey_hash |-> pubkey_hash]) :
                locktime \in {0, 100, 2000000000}}
       \cup {ScriptTemplates("timelock_script_csv",
                             [sequence |-> sequence, pubkey_hash |-> pubkey_hash]) :
                sequence \in {0, 10, 65535}}

NewInterpreter ==
    \E transaction_context \in Contexts :
        /\ interpreter' = ScriptInterpreter(transaction_context)
        /\ last' = [op |-> "ScriptInterpreter", arg |-> transaction_context,
                    ret |-> "none"]
        /\ UNCHANGED <<chain, pending_transactions, utxos, clock, tampered, mempool>>

\* interpreter.execute(script) for one of the scripts; `before` keeps the
\* interpreter as the call found it, `now` the time of the call
Execute(scripts) ==
    \E script \in scripts, now \in Nows :
        \E run \in {execute(interpreter, script, now)} :
            /\ interpreter' = run.self
            /\ last' = [op |-> "execute", arg |-> script, ret |-> run.ret,
                        error |-> run.error, before |-> interpreter, now |-> now]
            /\ UNCHANGED <<chain, pending_transactions, utxos, clock, tampered,
                           mempool>>

EncodeNum ==
    \E n \in Numbers :
        /\ last' = [op |-> "_encode_num", arg |-> n, ret |-> _encode_num(n)]
        /\ UNCHANGED <<chain, pending_transactions, utxos, clock, tampered, mempool,
                       interpreter>>

DecodeNum ==
    \E data \in ByteStrings :
        /\ last' = [op |-> "_decode_num", arg |-> data, ret |-> _decode_num(data)]
        /\ UNCHANGED <<chain, pending_transactions, utxos, clock, tampered, mempool,
                       interpreter>>

Serialize ==
    \E script \in CatalogScripts :
        /\ last' = [op |-> "Script.serialize", arg |-> script, ret |-> serialize(script)]
        /\ UNCHANGED <<chain, pending_transactions, utxos, clock, tampered, mempool,
                       interpreter>>

Deserialize ==
    \E data \in ByteStrings :
        /\ last' = [op |-> "Script.deserialize", arg |-> data, ret |-> deserialize(data)]
        /\ UNCHANGED <<chain, pending_transactions, utxos, clock, tampered, mempool,
                       interpreter>>

\* one call of a function of the codec or of the wire format
NextCodec ==
    \/ LastCall(MaxCalls) /\ EncodeNum
    \/ LastCall(MaxCalls) /\ DecodeNum
    \/ LastCall(MaxCalls) /\ Serialize
    \/ LastCall(MaxCalls) /\ Deserialize

SpecCodec == Init /\ [][NextCodec]_vars

\* up to MaxCalls - 1 calls on the interpreter
NextScript ==
    \/ Call(MaxCalls - 1) /\ NewInterpreter
    \/ Call(MaxCalls - 1) /\ Execute(CallerScripts)

SpecScript == Init /\ [][NextScript]_vars

\* a new interpreter, on it the unlocking script, then the locking script
NextMultisig ==
    \/ NewInterpreter /\ UNCHANGED calls
    \/ last.op = "ScriptInterpreter" /\ Execute(Unlocks) /\ UNCHANGED calls
    \/ last.op = "execute" /\ last.arg \in Unlocks /\ Execute(Locks)
       /\ UNCHANGED calls

SpecMultisig == Init /\ [][NextMultisig]_vars

(* Mempools for the knapsack: transactions whose sizes are 0, 1, 2 and 3    *)
(* units of the scale, one of them with a parent, and budgets of 0 to 4     *)
(* units.                                                                   *)

KnapsackTransactions ==
    { MempoolTransaction("K0", 3, 999, {}),
      MempoolTransaction("K1", 6, 1000, {}),
      MempoolTransaction("K2", 6, 1999, {}),
      MempoolTransaction("K3", 10, 2000, {}),
      MempoolTransaction("K4", 9, 3000, {}),
      MempoolTransaction("K5", 20, 1000, {"K1"}) }

KnapsackBudgets == {999, 1000, 2999, 3000, 4500}

\* a mempool of up to MaxCalls - 1 of these transactions, then
\* dp_knapsack_selection
NextKnapsack ==
    \/ /\ Call(MaxCalls - 1)
       /\ \E tx \in KnapsackTransactions :
              /\ mempool' = Mempool_add_transaction(mempool, tx)
              /\ last' = [op |-> "Mempool.add_transaction", arg |-> tx, ret |-> "none"]
       /\ UNCHANGED <<chain, pending_transactions, utxos, clock, tampered, interpreter>>
    \/ /\ LastCall(MaxCalls)
       /\ \E max_block_size \in KnapsackBudgets :
              last' = [op |-> "dp_knapsack_selection", arg |-> max_block_size,
                       ret |-> dp_knapsack_selection(mempool, max_block_size)]
       /\ UNCHANGED <<chain, pending_transactions, utxos, clock, tampered, mempool,
                      interpreter>>

SpecKnapsack == Init /\ [][NextKnapsack]_vars

(* Scenario S1: the key with seed 0x11, its P2PKH lock, and the unlocks a   *)
(* caller may present: the right one and the ones that differ from it in    *)
(* one byte of the signature or of the public key.                          *)

S1Lock ==
    ScriptTemplates("p2pkh_script_pubkey",
                    [pubkey_hash |-> hash160(public_key(17))])

S1Unlock ==
    ScriptTemplates("p2pkh_script_sig",
                    [signature |-> sign_message(private_key(17), tx_data),
                     pubkey |-> public_key(17)])

\* the unlock with byte `position` of item `item` changed by `change`
Mutated(unlock, item, position, change) ==
    [unlock EXCEPT ![item].value[position] = (@ + change) % 256]

S1Unlocks ==
    {S1Unlock}
    \cup {Mutated(S1Unlock, item, position, change) :
             item \in {1, 2}, position \in 1..32, change \in {1, 128, 255}}

\* a new interpreter, on it an unlock of S1, then the lock of S1
NextP2PKH ==
    \/ NewInterpreter /\ UNCHANGED calls
    \/ last.op = "ScriptInterpreter" /\ Execute(S1Unlocks) /\ UNCHANGED calls
    \/ last.op = "execute" /\ last.arg \in S1Unlocks /\ Execute({S1Lock})
       /\ UNCHANGED calls

SpecP2PKH == Init /\ [][NextP2PKH]_vars

\* the scripts that end in a lock-time opcode: by itself, after a pushed
\* number (heights, timestamps, sequences, negative ones), after a pushed
\* negative zero, and the CLTV template of scenario S3
TimelockScripts ==
    LET opcodes == {OpCode.OP_CHECKLOCKTIMEVERIFY, OpCode.OP_CHECKSEQUENCEVERIFY}
        numbers == {-1, 0, 1, 10, 11, 100, 101, 499999999, 500000000, 1700000000,
                    1700000001, 1999999999, 2000000000, 2000000001}
    IN {<<OpcodeItem(opcode)>> : opcode \in opcodes}
       \cup {<<PushItem(_encode_num(n)), OpcodeItem(opcode)>> :
                n \in numbers, opcode \in opcodes}
       \cup {<<PushItem(<<128>>), OpcodeItem(opcode)>> : opcode \in opcodes}
       \cup {ScriptTemplates("timelock_script_cltv",
                             [locktime |-> 2000000000,
                              pubkey_hash |-> hash160(public_key(1))])}

\* up to MaxCalls - 2 calls on an interpreter, with the lock-time scripts
NextTimelock ==
    \/ Call(MaxCalls - 2) /\ NewInterpreter
    \/ Call(MaxCalls - 2) /\ Execute(TimelockScripts)

SpecTimelock == Init /\ [][NextTimelock]_vars

-----------------------------------------------------------------------------
(* Properties *)

RECURSIVE Flatten(_, _)
Flatten(ss, i) == IF i > Len(ss) THEN <<>> ELSE ss[i] \o Flatten(ss, i + 1)

SelectOutpoints(inputs) ==
    LET F[i \in 0..Len(inputs)] ==
            IF i = 0 THEN <<>>
            ELSE IF inputs[i].prev_tx_hash # ZeroHash
                 THEN Append(F[i - 1], <<inputs[i].prev_tx_hash, inputs[i].prev_output_index>>)
                 ELSE F[i - 1]
    IN F[Len(inputs)]

\* every transaction of every block of the chain, in order
ChainTransactions == Flatten([i \in 1..Len(chain) |-> chain[i].transactions], 1)

\* the outpoints consumed by the non-coinbase inputs of the chain's transactions
ConsumedOutpoints ==
    Flatten([i \in 1..Len(ChainTransactions) |->
                SelectOutpoints(ChainTransactions[i].inputs)], 1)

OutputTotal(tx) == SumSeq([i \in 1..Len(tx.outputs) |-> tx.outputs[i].amount], 1)

UtxoTotal(u) == SumAmounts(u, DOMAIN u)

\* C1: no outpoint is consumed by more than one non-coinbase input among the
\* transactions of the blocks of the chain.
C1_NoOutpointSpentTwice ==
    \A i, j \in 1..Len(ConsumedOutpoints) :
        i # j => ConsumedOutpoints[i] # ConsumedOutpoints[j]

\* C2: every block of the chain, the genesis block included, stores the hash
\* of its serialization, and that hash begins with `difficulty` '0' characters.
C2_EveryBlockMeetsTarget ==
    \A i \in 1..Len(chain) :
        /\ chain[i].hash = Block_calculate_hash(chain[i])
        /\ StartsWithZeros(chain[i].hash, difficulty)

\* C3: the chain is non-empty, chain[i].index = i, the first block's
\* previous_hash is "0" * 64 and every later block's previous_hash is the hash
\* of the block before it.
C3_ChainLinked ==
    /\ Len(chain) >= 1
    /\ \A i \in 1..Len(chain) : chain[i].index = i - 1
    /\ chain[1].previous_hash = ZeroHash
    /\ \A i \in 2..Len(chain) : chain[i].previous_hash = chain[i - 1].hash

C3_Witness ==
    /\ last.op = "mine_pending_transactions"
    /\ Len(chain) >= 3
    /\ chain[3].previous_hash = chain[2].hash
    /\ chain[2].hash # chain[1].hash

\* the coinbase shape of section 4.G: a single input with the all-zero hash
\* and index 0xFFFFFFFF
CoinbaseShape(tx) ==
    /\ Len(tx.inputs) = 1
    /\ tx.inputs[1].prev_tx_hash = ZeroHash
    /\ tx.inputs[1].prev_output_index = CoinbaseIndex

InputTotal(u, tx) ==
    SumSeq([i \in 1..Len(tx.inputs) |->
               u[UtxoKey(tx.inputs[i].prev_tx_hash, tx.inputs[i].prev_output_index)].amount], 1)

\* the transactions C4 says add_transaction accepts
AcceptableC4(u, tx) ==
    \/ CoinbaseShape(tx)
    \/ /\ \A i \in 1..Len(tx.inputs) :
             UtxoKey(tx.inputs[i].prev_tx_hash, tx.inputs[i].prev_output_index) \in DOMAIN u
       /\ OutputTotal(tx) <= InputTotal(u, tx)
       /\ verify_signatures(tx, u)

\* C4: add_transaction(tx) returns True and appends tx to the pending pool iff
\* tx has coinbase shape or else all its inputs' UTXOs exist, its outputs do
\* not exceed them and verify_signatures passes; otherwise it returns False
\* and leaves the pool as it was; chain and UTXO set are unchanged either way.
C4_AddTransactionContract ==
    [][last'.op = "add_transaction" =>
         /\ IF AcceptableC4(utxos, last'.arg)
            THEN /\ last'.ret = TRUE
                 /\ pending_transactions' = Append(pending_transactions, last'.arg)
            ELSE /\ last'.ret = FALSE
                 /\ pending_transactions' = pending_transactions
         /\ chain' = chain
         /\ utxos' = utxos]_vars

\* the transactions applied to a UTXO set one after the other
RECURSIVE AppliedInOrder(_, _)
AppliedInOrder(u, txs) ==
    IF txs = <<>> THEN u
    ELSE AppliedInOrder(update_with_transaction(u, Head(txs)), Tail(txs))

\* C5: mine_pending_transactions(m) appends exactly one block: its index is
\* the former length, its previous_hash the former tip's hash, its difficulty
\* the chain's, its transactions a coinbase paying mining_reward to m followed
\* by the pending transactions in order; afterwards the pool is empty and the
\* UTXO set is the former one with those transactions applied in that order.
C5_MineAppendsOneBlock ==
    [][last'.op = "mine_pending_transactions" =>
         LET b == chain'[Len(chain')]
             cb == b.transactions[1]
         IN /\ Len(chain') = Len(chain) + 1
            /\ SubSeq(chain', 1, Len(chain)) = chain
            /\ b.index = Len(chain)
            /\ b.previous_hash = chain[Len(chain)].hash
            /\ b.difficulty = difficulty
            /\ Len(b.transactions) = Len(pending_transactions) + 1
            /\ CoinbaseShape(cb)
            /\ cb.outputs = <<TxOutput(mining_reward, last'.arg)>>
            /\ SubSeq(b.transactions, 2, Len(b.transactions)) = pending_transactions
            /\ pending_transactions' = <<>>
            /\ utxos' = AppliedInOrder(utxos, b.transactions)]_vars

C5_Witness ==
    /\ last.op = "mine_pending_transactions"
    /\ Len(last.ret.transactions) = 3
    /\ last.ret.transactions[2] # last.ret.transactions[3]
    /\ pending_transactions = <<>>

\* C6: mine_pending_transactions either appends a block that meets the
\* difficulty target and applies all of its transactions, or it changes
\* neither the chain, the UTXO set nor the pending pool.
C6_MineIsAtomic ==
    [][last'.op = "mine_pending_transactions" =>
         \/ LET b == chain'[Len(chain')]
            IN /\ Len(chain') = Len(chain) + 1
               /\ b.hash = Block_calculate_hash(b)
               /\ StartsWithZeros(b.hash, b.difficulty)
               /\ utxos' = AppliedInOrder(utxos, b.transactions)
         \/ /\ chain' = chain
            /\ utxos' = utxos
            /\ pending_transactions' = pending_transactions]_vars

\* the amounts of the outpoints that tx's non-coinbase inputs reference, each
\* outpoint counted once
SpentTotal(u, tx) ==
    SumAmounts(u, {k \in DOMAIN u :
                     \E i \in 1..Len(tx.inputs) :
                        /\ tx.inputs[i].prev_tx_hash # ZeroHash
                        /\ k = UtxoKey(tx.inputs[i].prev_tx_hash,
                                       tx.inputs[i].prev_output_index)})

\* the transactions the chain would apply to its UTXO set next: the coinbase
\* of the next block and what add_transaction accepts now
NextTransactions ==
    {create_coinbase_transaction(m, Len(chain), mining_reward, clock) : m \in Miners}
    \cup {tx \in CallerTransactions : validate_transaction(utxos, tx)}

\* C7: after update_with_transaction(tx) the sum of the amounts in the UTXO
\* set is the previous sum, minus the amounts of the outpoints referenced by
\* tx's non-coinbase inputs, plus tx's output amounts.
C7_UpdateConservesSum ==
    \A tx \in NextTransactions :
        UtxoTotal(update_with_transaction(utxos, tx))
            = UtxoTotal(utxos) - SpentTotal(utxos, tx) + OutputTotal(tx)

\* what C8 says verify_signatures returns: coinbase inputs are exempt
VerifiedC8(tx, u) ==
    \A i \in 1..Len(tx.inputs) :
        LET inp == tx.inputs[i]
        IN \/ inp.prev_tx_hash = ZeroHash /\ inp.prev_output_index = CoinbaseIndex
           \/ /\ inp.signature.len > 0
              /\ inp.public_key.len > 0
              /\ UtxoKey(inp.prev_tx_hash, inp.prev_output_index) \in DOMAIN u
              /\ verify_with_pubkey(inp.public_key,
                      serialize_for_hashing(tx.timestamp, tx.inputs, tx.outputs),
                      inp.signature)

\* the transactions verify_signatures is tried on: the caller's and a coinbase
VerifyTransactions ==
    CallerTransactions
    \cup {create_coinbase_transaction(m, Len(chain), mining_reward, clock) : m \in Miners}

\* C8: verify_signatures(utxo_set) is true iff every non-coinbase input has a
\* non-empty signature and public key, its UTXO exists and the verifier
\* accepts the signature; coinbase inputs are exempt.
C8_VerifySignaturesContract ==
    \A tx \in VerifyTransactions : verify_signatures(tx, utxos) <=> VerifiedC8(tx, utxos)

\* C9: is_chain_valid() returns true iff for every i > 0 the recomputed hash of
\* chain[i] equals the stored one, chain[i].previous_hash is chain[i-1].hash
\* and the stored hash starts with chain[i].difficulty '0' characters; it
\* modifies neither the chain, the pending pool nor the UTXO set.
C9_IsChainValidContract ==
    [][last'.op = "is_chain_valid" =>
         /\ last'.ret.valid <=>
               \A i \in 2..Len(chain) :
                  /\ Block_calculate_hash(chain[i]) = chain[i].hash
                  /\ chain[i].previous_hash = chain[i - 1].hash
                  /\ StartsWithZeros(chain[i].hash, chain[i].difficulty)
         /\ chain' = chain
         /\ pending_transactions' = pending_transactions
         /\ utxos' = utxos]_vars

\* is_chain_valid has returned false at a previous-hash check
C9_Witness ==
    /\ last.op = "is_chain_valid"
    /\ ~last.ret.valid
    /\ last.ret.checks[Len(last.ret.checks)][2] = "previous_hash"

\* C10: once three blocks are mined, a changed nonce in block 1 (its stored
\* hash left alone) makes is_chain_valid return false at block 1's hash check:
\* that is the only check made, none of block 2 follows.
C10_TamperCaughtAtBlock1 ==
    (/\ last.op = "is_chain_valid"
     /\ Len(chain) >= 4
     /\ tampered = [block |-> 1, field |-> "nonce"])
        => /\ last.ret.valid = FALSE
           /\ last.ret.checks = << <<1, "hash">> >>

C10_Witness ==
    /\ last.op = "is_chain_valid"
    /\ Len(chain) >= 4
    /\ tampered = [block |-> 1, field |-> "nonce"]
    /\ last.ret.valid = FALSE

\* the shape of scenario S4: a fresh chain, an empty block mined to A, then a
\* block mined to C that holds A's signed transaction spending A's coinbase
\* output into 10 to B and 40 to A
S4Chain ==
    /\ Len(chain) = 3
    /\ chain[1] = GenesisBlock(chain[1].timestamp)
    /\ Len(chain[2].transactions) = 1
    /\ CoinbaseShape(chain[2].transactions[1])
    /\ chain[2].transactions[1].outputs = <<TxOutput(mining_reward, "A")>>
    /\ Len(chain[3].transactions) = 2
    /\ CoinbaseShape(chain[3].transactions[1])
    /\ chain[3].transactions[1].outputs = <<TxOutput(mining_reward, "C")>>
    /\ chain[3].transactions[2].inputs =
          <<TxInput(chain[2].transactions[1].tx_hash, 0, WalletSign("A"), PublicKey("A"))>>
    /\ chain[3].transactions[2].outputs = SplitOutputs

\* C11: scenario S4. After a fresh chain (genesis output 100 coins), an
\* empty block mined to A, A's signed transaction of its 50-coin coinbase
\* output into 10 to B and 40 to A, and a block mined to C, the balances are
\* A = 40, B = 10, C = 50 and the UTXO set totals 200 coins.
C11_ScenarioS4Balances ==
    (S4Chain /\ last.op = "mine_pending_transactions") =>
        /\ get_balance(utxos, "A") = 40
        /\ get_balance(utxos, "B") = 10
        /\ get_balance(utxos, "C") = 50
        /\ get_balance(utxos, "genesis") = GenesisAmount
        /\ UtxoTotal(utxos) = 200

C11_Witness ==
    /\ S4Chain
    /\ last.op = "mine_pending_transactions"
    /\ last.arg = "C"
    /\ pending_transactions = <<>>

\* the key names output k[2] of a transaction of a block of the chain c
RefersToChainOutput(c, k) ==
    \E b \in 1..Len(c) : \E t \in 1..Len(c[b].transactions) :
        /\ c[b].transactions[t].tx_hash = k[1]
        /\ k[2] \in 0..(Len(c[b].transactions[t].outputs) - 1)

\* an input of a transaction of a block of the chain c references the key
SpentByChainInput(c, k) ==
    \E b \in 1..Len(c) : \E t \in 1..Len(c[b].transactions) :
        \E i \in 1..Len(c[b].transactions[t].inputs) :
            UtxoKey(c[b].transactions[t].inputs[i].prev_tx_hash,
                    c[b].transactions[t].inputs[i].prev_output_index) = k

\* C12: every key of the UTXO set names an output of a transaction of a block
\* of the chain, and a key leaves the UTXO set only when an input of a
\* transaction of a block of the chain references it.
C12_UtxoEntriesConfirmed ==
    /\ [](\A k \in DOMAIN utxos : RefersToChainOutput(chain, k))
    /\ [][\A k \in DOMAIN utxos :
              k \notin DOMAIN utxos' => SpentByChainInput(chain', k)]_vars

C12_Witness ==
    /\ last.op = "mine_pending_transactions"
    /\ \E k \in DOMAIN utxos : k[1].kind = "tx" /\ k[2] = 1
    /\ \E b \in 2..Len(chain) :
          /\ Len(chain[b].transactions) >= 2
          /\ UtxoKey(chain[b].transactions[2].inputs[1].prev_tx_hash,
                     chain[b].transactions[2].inputs[1].prev_output_index)
                \notin DOMAIN utxos

\* C13: for all transactions t and c stored in the mempool, c.tx_id is in
\* t.children exactly when t.tx_id is in c.parents.
C13_EdgesConsistent ==
    \A i, j \in 1..Len(mempool) :
        (mempool[j].tx_id \in mempool[i].children)
            <=> (mempool[i].tx_id \in mempool[j].parents)

\* the stored transactions that tx_id reaches in at most n steps along parents
RECURSIVE ReachByParents(_, _, _)
ReachByParents(m, ids, n) ==
    IF n = 0 THEN ids
    ELSE ReachByParents(m,
            ids \cup UNION {get_transaction(m, x).parents \cap TxIdsOf(m) : x \in ids},
            n - 1)

\* C14: the parent relation among the stored transactions is acyclic: no
\* stored transaction is reached from its own parents.
C14_ParentsAcyclic ==
    \A i \in 1..Len(mempool) :
        mempool[i].tx_id \notin
            ReachByParents(mempool, mempool[i].parents \cap TxIdsOf(mempool),
                           Len(mempool))

\* C15: ancestor_set_mining returns a selection whose sizes sum to at most
\* the budget and that holds every declared parent of each of its members.
C15_AncestorSelectionClosed ==
    (last.op = "ancestor_set_mining" /\ last.ret.raised = "none") =>
        /\ SumSizes(mempool, Range(last.ret.selected)) <= last.arg
        /\ \A t \in Range(last.ret.selected) :
               get_transaction(mempool, t).parents \subseteq Range(last.ret.selected)

\* C16: dp_knapsack_selection returns only transactions without parents and
\* the returned total_size, the sum of their sizes in bytes, is at most the
\* budget.
C16_KnapsackWithinBudget ==
    (last.op = "dp_knapsack_selection") =>
        /\ \A t \in Range(last.ret.selected) :
               get_transaction(mempool, t).parents = {}
        /\ last.ret.total_size = SumSizes(mempool, Range(last.ret.selected))
        /\ last.ret.total_size <= last.arg

\* the sum of the fees and of the sizes of the returned ids
ReturnedSums(ret) ==
    /\ ret.total_fee = SumFees(mempool, Range(ret.selected))
    /\ ret.total_size = SumSizes(mempool, Range(ret.selected))

\* C17: greedy_selection returns distinct ids in descending fee/size order,
\* with total_size at most the budget, every selected transaction's parents
\* selected before it, and total_fee and total_size the sums over the
\* returned ids.
C17_GreedyContract ==
    (last.op = "greedy_selection") =>
        LET selected == last.ret.selected
        IN /\ Range(selected) \subseteq TxIdsOf(mempool)
           /\ \A i, j \in 1..Len(selected) :
                  i < j =>
                    /\ selected[i] # selected[j]
                    /\ ~Greater(fee_per_byte(get_transaction(mempool, selected[j])),
                                fee_per_byte(get_transaction(mempool, selected[i])))
           /\ \A j \in 1..Len(selected) :
                  get_transaction(mempool, selected[j]).parents
                      \subseteq {selected[i] : i \in 1..(j - 1)}
           /\ last.ret.total_size <= last.arg
           /\ ReturnedSums(last.ret)

C17_Witness ==
    /\ last.op = "greedy_selection"
    /\ Len(last.ret.selected) = 2
    /\ Len(mempool) = 3
    /\ \E i \in 1..Len(mempool) :
          /\ mempool[i].tx_id \notin Range(last.ret.selected)
          /\ mempool[i].parents # {}
    /\ Greater(fee_per_byte(get_transaction(mempool, last.ret.selected[1])),
               fee_per_byte(get_transaction(mempool, last.ret.selected[2])))

\* a CPFP package: a stored child whose fee rate is higher than that of one
\* of its stored parents
HasCpfpPackage(m) ==
    \E c, p \in 1..Len(m) :
        /\ m[p].tx_id \in m[c].parents
        /\ Greater(fee_per_byte(m[c]), fee_per_byte(m[p]))

\* C20 as stated: on a mempool with a CPFP package, for every budget,
\* greedy_selection's total_fee is at most the total_fee ancestor_set_mining
\* returns.
C20_GreedyNeverBeatsAncestor ==
    (last.op = "ancestor_set_mining" /\ last.ret.raised = "none"
        /\ HasCpfpPackage(mempool)) =>
        greedy_selection(mempool, last.arg).total_fee <= last.ret.total_fee

\* C20 amended: on a mempool with a CPFP package and a budget of at least the
\* total size of the stored transactions, ancestor_set_mining fails with
\* RecursionError (the parents form a cycle) or returns a total_fee that is at
\* least greedy_selection's.
C20_GreedyAtMostAncestorWhenAllFit ==
    (last.op = "ancestor_set_mining" /\ HasCpfpPackage(mempool)
        /\ last.arg >= SumSizes(mempool, TxIdsOf(mempool))) =>
        \/ last.ret.raised = "RecursionError"
        \/ /\ last.ret.raised = "none"
           /\ greedy_selection(mempool, last.arg).total_fee <= last.ret.total_fee

C20_Witness ==
    /\ last.op = "ancestor_set_mining"
    /\ HasCpfpPackage(mempool)
    /\ last.arg >= SumSizes(mempool, TxIdsOf(mempool))
    /\ last.ret.raised = "none"
    /\ greedy_selection(mempool, last.arg).total_fee < last.ret.total_fee

\* C18: simulated_annealing_selection returns the best-fee selection it ever
\* held; that selection is within the budget and holds all parents of each of
\* its members, and the returned fee and size are the sums over the returned
\* ids.
C18_AnnealingReturnsBestValid ==
    (last.op = "simulated_annealing_selection") =>
        /\ last.ret.raised = "none"
        /\ \E i \in 1..Len(last.held) :
               last.held[i].selection = Range(last.ret.selected)
        /\ \A i \in 1..Len(last.held) : last.held[i].fee <= last.ret.total_fee
        /\ last.ret.total_size <= last.arg.max_block_size
        /\ is_valid_selection(mempool, Range(last.ret.selected))
        /\ ReturnedSums(last.ret)

\* C19: a second run of simulated_annealing_selection on the same mempool
\* with the same budget, iteration count and seed returns the same
\* (selected_ids, total_fee, total_size), whatever the order of the sets of ids
\* in that run.
C19_AnnealingDeterministic ==
    (last.op = "simulated_annealing_selection") =>
        \A hash_order \in HashOrders :
            simulated_annealing_selection(mempool, last.arg.max_block_size,
                                          last.arg.iterations, last.arg.seed,
                                          hash_order).result = last.ret

\* C21: in scenario S5 there is a budget for which greedy_selection returns
\* exactly the transactions without parents other than P (and not P) and ancestor_set_mining
\* returns a selection with both P and C
C21_ScenarioS5 ==
    (Len(mempool) = Len(S5Transactions) /\ last.op = "Mempool.add_transaction") =>
        \E max_block_size \in S5Budgets :
            LET greedy == greedy_selection(mempool, max_block_size)
            IN /\ Range(greedy.selected) = S5Plain
               /\ {"P", "C"} \subseteq
                      Range(ancestor_set_mining(mempool, max_block_size, S5Order).selected)

\* C22: in a mempool whose parent relation is acyclic and stays within the
\* stored transactions, calculate_ancestor_set(t) returns the transitive
\* closure of t's parents plus t, with the fee and the size of each member
\* counted once in total_fee and total_size
C22_AncestorSetExact ==
    (\A i \in 1..Len(mempool) :
        /\ mempool[i].parents \subseteq TxIdsOf(mempool)
        /\ mempool[i].tx_id \notin
               ReachByParents(mempool, mempool[i].parents, Len(mempool)))
    => \A i \in 1..Len(mempool) :
           LET closure == ReachByParents(mempool, {mempool[i].tx_id}, Len(mempool))
               ancestor_set == calculate_ancestor_set(mempool[i].tx_id, mempool, {})
           IN /\ ~ancestor_set.failed
              /\ ancestor_set.tx_ids = closure
              /\ ancestor_set.total_fee = SumFees(mempool, closure)
              /\ ancestor_set.total_size = SumSizes(mempool, closure)

\* C23: every call of execute starts from an empty main stack and an empty
\* alt stack, so that it returns what a new interpreter with the same
\* context returns for the script
C23_ExecuteStartsEmpty ==
    last.op = "execute" =>
        /\ last.before.stack = <<>>
        /\ last.before.alt_stack = <<>>
        /\ last.ret = execute(ScriptInterpreter(last.before.transaction_context),
                              last.arg, last.now).ret

\* C24: execute returns a boolean; it returns TRUE iff no opcode raised a
\* script error and the stack it leaves is non-empty with a top element that
\* is neither empty nor the single byte 0x80.  A script that holds OP_RETURN,
\* an opcode that finds fewer elements than it takes, and OP_VERIFY on a
\* false top all return FALSE.
C24_ExecuteContract ==
    last.op = "execute" =>
        LET stack == interpreter.stack
            script == last.arg
            found == Len(last.before.stack)
            takes(opcode) ==
                IF opcode \in {OpCode.OP_3DUP, OpCode.OP_ROT} THEN 3
                ELSE IF opcode \in {OpCode.OP_SWAP, OpCode.OP_2DUP, OpCode.OP_OVER,
                                    OpCode.OP_EQUAL, OpCode.OP_EQUALVERIFY,
                                    OpCode.OP_ADD, OpCode.OP_SUB, OpCode.OP_CHECKSIG,
                                    OpCode.OP_CHECKSIGVERIFY} THEN 2
                ELSE IF opcode \in {OpCode.OP_VERIFY, OpCode.OP_DUP, OpCode.OP_DROP,
                                    OpCode.OP_1ADD, OpCode.OP_1SUB, OpCode.OP_SHA256,
                                    OpCode.OP_HASH160, OpCode.OP_HASH256,
                                    OpCode.OP_CHECKMULTISIG,
                                    OpCode.OP_CHECKLOCKTIMEVERIFY,
                                    OpCode.OP_CHECKSEQUENCEVERIFY} THEN 1
                ELSE 0
        IN /\ last.ret \in BOOLEAN
           /\ last.ret = (/\ last.error = "none"
                          /\ Len(stack) > 0
                          /\ stack[Len(stack)] # <<>>
                          /\ stack[Len(stack)] # <<128>>)
           /\ (\E i \in 1..Len(script) : script[i] = OpcodeItem(OpCode.OP_RETURN))
                  => ~last.ret
           /\ (Len(script) = 1 /\ script[1].kind = "int"
                  /\ found < takes(script[1].value)) => ~last.ret
           /\ (script = <<OpcodeItem(OpCode.OP_VERIFY)>> /\ found > 0
                  /\ last.before.stack[found] \in {<<>>, <<128>>}) => ~last.ret

\* the locking script of P2PKH returned TRUE on the stack that the unlocking
\* script left
C24_Witness ==
    /\ last.op = "execute"
    /\ last.ret = TRUE
    /\ last.arg = ScriptTemplates("p2pkh_script_pubkey",
                                  [pubkey_hash |-> hash160(public_key(1))])
    /\ Len(last.before.stack) = 2

\* C25: an integer item outside the implemented opcodes raises a script
\* error: execute returns FALSE for every script that reaches such an item
\* (the items before it ran without an error), whatever follows it.
C25_UnknownOpcodeFails ==
    last.op = "execute" =>
        LET script == last.arg
            implemented ==
                {OpCode.OP_0, OpCode.OP_1NEGATE} \cup (OpCode.OP_1..OpCode.OP_16)
                \cup {OpCode.OP_NOP, OpCode.OP_VERIFY, OpCode.OP_RETURN,
                      OpCode.OP_2DUP, OpCode.OP_3DUP, OpCode.OP_DROP, OpCode.OP_DUP,
                      OpCode.OP_OVER, OpCode.OP_ROT, OpCode.OP_SWAP, OpCode.OP_EQUAL,
                      OpCode.OP_EQUALVERIFY, OpCode.OP_1ADD, OpCode.OP_1SUB,
                      OpCode.OP_ADD, OpCode.OP_SUB, OpCode.OP_SHA256,
                      OpCode.OP_HASH160, OpCode.OP_HASH256, OpCode.OP_CHECKSIG,
                      OpCode.OP_CHECKSIGVERIFY, OpCode.OP_CHECKMULTISIG}
                \cup (OpCode.OP_NOP1..OpCode.OP_NOP10)
            reached(i) ==
                execute(last.before, SubSeq(script, 1, i - 1), last.now).error = "none"
        IN \A i \in 1..Len(script) :
               (script[i].kind = "int" /\ script[i].value \notin implemented
                    /\ reached(i))
               => last.ret = FALSE /\ last.error # "none"

\* C26: _decode_num(_encode_num(n)) = n for every integer n, zero encoding
\* as the empty string, and _encode_num(_decode_num(b)) = b for every valid
\* script-number byte string b: one that is empty, or whose last byte has
\* other bits than the sign bit, or is needed because the byte before it has
\* its high bit set.
C26_NumberCodecRoundTrips ==
    LET valid(b) ==
            \/ Len(b) = 0
            \/ b[Len(b)] % 128 # 0
            \/ Len(b) > 1 /\ b[Len(b) - 1] >= 128
    IN /\ last.op = "_encode_num" =>
              /\ _decode_num(last.ret) = last.arg
              /\ (last.arg = 0) = (last.ret = <<>>)
              /\ valid(last.ret)
       /\ (last.op = "_decode_num" /\ valid(last.arg)) =>
              _encode_num(last.ret) = last.arg

\* a negative number decoded from three bytes of which the last is the sign
\* byte alone
C26_Witness ==
    /\ last.op = "_decode_num"
    /\ Len(last.arg) = 3
    /\ last.arg[3] = 128
    /\ last.arg[2] >= 128
    /\ last.ret < 0

\* C27: for every script s that a template of the catalog builds,
\* Script.deserialize(s.serialize()) has the items of s: each opcode an
\* opcode, each push payload the same push payload.
C27_SerializeRoundTrips ==
    last.op = "Script.serialize" =>
        /\ last.ret.raised = "none"
        /\ deserialize(last.ret.data) = [raised |-> "none", opcodes |-> last.arg]

\* C28: Script.deserialize fails with a script error on every byte string in
\* which a length prefix announces more payload bytes than remain or a
\* PUSHDATA length field is cut short; it returns no shortened payload.
C28_TruncatedPushRejected ==
    last.op = "Script.deserialize" =>
        LET data == last.arg
            end == Len(data)
            \* a push that starts at or after position i is truncated
            Truncated[i \in 1..(end + 1)] ==
                IF i > end THEN FALSE
                ELSE IF data[i] < OpCode.OP_PUSHDATA1
                     THEN i + data[i] > end \/ Truncated[i + data[i] + 1]
                ELSE IF data[i] = OpCode.OP_PUSHDATA1
                     THEN \/ i + 1 > end
                          \/ i + 1 + data[i + 1] > end
                          \/ Truncated[i + data[i + 1] + 2]
                ELSE IF data[i] = OpCode.OP_PUSHDATA2
                     THEN \/ i + 2 > end
                          \/ i + 2 + data[i + 1] + 256 * data[i + 2] > end
                          \/ Truncated[i + data[i + 1] + 256 * data[i + 2] + 3]
                ELSE Truncated[i + 1]
        IN Truncated[1] => last.ret.raised = "ScriptError"

\* C29: OP_CHECKMULTISIG at the end of a locking script takes from the stack
\* N, N public keys, M, M signatures and one more element; a stack that is
\* too short for any of them fails the script.  Otherwise the signatures
\* (last pushed first) are matched against the public keys in the order they
\* were pushed, the signature index advancing only on a successful verify,
\* and what is left of the stack gets 1 when the M signatures matched and
\* the empty string when not.
C29_CheckMultisigContract ==
    (last.op = "execute" /\ last.arg \in Locks) =>
        LET script == last.arg
            pushed == [i \in 1..(Len(script) - 1) |->
                          IF script[i].kind = "bytes" THEN script[i].value
                          ELSE _encode_num(script[i].value - OpCode.OP_1 + 1)]
            found == last.before.stack \o pushed
            top == Len(found)
            message == get(last.before.transaction_context, "tx_data", <<>>)
            keys == IF top < 1 THEN 0 ELSE _decode_num(found[top])
            n_keys == IF keys > 0 THEN keys ELSE 0
            sigs == IF top < n_keys + 2 THEN 0 ELSE _decode_num(found[top - n_keys - 1])
            n_sigs == IF sigs > 0 THEN sigs ELSE 0
            taken == n_keys + n_sigs + 3
            \* the signatures matched from public key j + 1 on, k matched so far
            Matched[j \in 0..n_keys, k \in 0..n_sigs] ==
                IF j = n_keys \/ k = n_sigs THEN k
                ELSE IF verify_signature(found[top - n_keys + j], message,
                                         found[top - n_keys - 2 - k])
                     THEN Matched[j + 1, k + 1]
                     ELSE Matched[j + 1, k]
        IN IF top < taken
           THEN last.error # "none" /\ last.ret = FALSE
           ELSE /\ last.error = "none"
                /\ interpreter.stack =
                       Append(SubSeq(found, 1, top - taken),
                              IF Matched[0, 0] = sigs THEN <<1>> ELSE <<>>)

\* a 2-of-3 lock met the dummy element and two signatures and left 1
C29_Witness ==
    /\ last.op = "execute"
    /\ last.arg = ScriptTemplates("multisig_script_pubkey",
                                  [m |-> 2, pubkeys |-> PublicKeys(3)])
    /\ Len(last.before.stack) = 3
    /\ last.before.stack[1] = <<>>
    /\ interpreter.stack = <<(<<1>>)>>
    /\ last.ret = TRUE

\* C30: for a lock multisig_script_pubkey(M, keys) with 1 <= M <= N, the
\* unlock multisig_script_sig(signatures) followed by the lock returns TRUE
\* when the signatures are those of M of the N keys in ascending key order,
\* and FALSE when fewer than M of them are valid, that is made by
\* sign_message with the private key of one of the N keys.
C30_MultisigThreshold ==
    \A m \in 1..MaxKeys, n \in 1..MaxKeys :
        (/\ m <= n
         /\ last.op = "execute"
         /\ last.arg = ScriptTemplates("multisig_script_pubkey",
                                       [m |-> m, pubkeys |-> PublicKeys(n)])
         /\ Len(last.before.stack) > 0
         /\ last.before.stack[1] = <<>>) =>
            LET signatures == Tail(last.before.stack)
                Signature(seed) == sign_message(private_key(seed), tx_data)
                valid == {i \in 1..Len(signatures) :
                             \E seed \in 1..n : signatures[i] = Signature(seed)}
                ascending ==
                    \E seeds \in [1..m -> 1..n] :
                        /\ \A i \in 1..(m - 1) : seeds[i] < seeds[i + 1]
                        /\ signatures = [i \in 1..m |-> Signature(seeds[i])]
            IN /\ ascending => last.ret = TRUE
               /\ Cardinality(valid) < m => last.ret = FALSE

\* C31: scenario S2: for the 2-of-3 lock over (pub1, pub2, pub3) the unlock
\* (OP_0, sig2, sig1), the two valid signatures in the wrong order, makes the
\* execution return FALSE.
C31_ScenarioS2WrongOrder ==
    (/\ last.op = "execute"
     /\ last.arg = ScriptTemplates("multisig_script_pubkey",
                                   [m |-> 2, pubkeys |-> PublicKeys(3)])
     /\ last.before.stack = <<(<<>>), sign_message(private_key(2), tx_data),
                              sign_message(private_key(1), tx_data)>>)
    => last.ret = FALSE

\* C32: scenario S1: the unlock (sign(priv, tx_data), pub) followed by the
\* P2PKH lock for hash160(pub) returns TRUE, and the same execution with one
\* byte of the signature or of the public key changed returns FALSE.
C32_ScenarioS1 ==
    (/\ last.op = "execute"
     /\ last.arg = S1Lock
     /\ Len(last.before.stack) = 2
     /\ "tx_data" \in DOMAIN last.before.transaction_context) =>
        last.ret = (/\ last.before.stack[1] = S1Unlock[1].value
                    /\ last.before.stack[2] = S1Unlock[2].value)

\* C33: OP_CHECKLOCKTIMEVERIFY fails on an empty stack; on a non-empty one
\* it decodes the top element L, leaves the stack as it is, and fails iff
\* L < 500000000 and L > block_height (0 when the context has none), or
\* L >= 500000000 and L > current_time (the clock when the context has
\* none).  A lock of 2000000000 fails at current_time 1999999999 and
\* succeeds at 2000000001.
C33_CheckLockTimeVerify ==
    (/\ last.op = "execute"
     /\ last.arg \in TimelockScripts
     /\ last.arg[Len(last.arg)] = OpcodeItem(OpCode.OP_CHECKLOCKTIMEVERIFY)) =>
        LET context == last.before.transaction_context
            found == last.before.stack
                     \o [i \in 1..(Len(last.arg) - 1) |-> last.arg[i].value]
            L == _decode_num(found[Len(found)])
            block_height == IF "block_height" \in DOMAIN context
                            THEN context.block_height ELSE 0
            current_time == IF "current_time" \in DOMAIN context
                            THEN context.current_time ELSE last.now
            unmet == \/ L < 500000000 /\ L > block_height
                     \/ L >= 500000000 /\ L > current_time
        IN /\ interpreter.stack = found
           /\ (last.error # "none") = (found = <<>> \/ unmet)
           /\ last.error # "none" => last.ret = FALSE
           /\ (found # <<>> /\ L = 2000000000 /\ "current_time" \in DOMAIN context) =>
                  /\ context.current_time = 1999999999 => last.ret = FALSE
                  /\ context.current_time = 2000000001 => last.ret = TRUE

\* the lock of 2000000000 was met at current_time 2000000001
C33_Witness ==
    /\ last.op = "execute"
    /\ last.arg = <<PushItem(_encode_num(2000000000)),
                    OpcodeItem(OpCode.OP_CHECKLOCKTIMEVERIFY)>>
    /\ last.before.stack = <<>>
    /\ "current_time" \in DOMAIN last.before.transaction_context
    /\ last.before.transaction_context.current_time = 2000000001
    /\ last.ret = TRUE
    /\ interpreter.stack = <<_encode_num(2000000000)>>

\* C34: OP_CHECKSEQUENCEVERIFY fails on an empty stack; on a non-empty one
\* it leaves the stack as it is and fails iff the number s on top is
\* negative or greater than the sequence of the context (0xffffffff when the
\* context has none).
C34_CheckSequenceVerify ==
    (/\ last.op = "execute"
     /\ last.arg \in TimelockScripts
     /\ last.arg[Len(last.arg)] = OpcodeItem(OpCode.OP_CHECKSEQUENCEVERIFY)) =>
        LET context == last.before.transaction_context
            found == last.before.stack
                     \o [i \in 1..(Len(last.arg) - 1) |-> last.arg[i].value]
            \* the numbers that the element on top encodes
            tops == {s \in {-1, 0, 1, 10, 11, 100, 101, 499999999, 500000000,
                            1700000000, 1700000001, 1999999999, 2000000000,
                            2000000001} : found[Len(found)] = _encode_num(s)}
            unmet(s) == \/ s < 0
                        \/ IF "sequence" \in DOMAIN context THEN s > context.sequence
                           ELSE s \div 65536 > 65535
        IN /\ interpreter.stack = found
           /\ found = <<>> => last.error # "none"
           /\ found # <<>> => \A s \in tops : (last.error # "none") = unmet(s)
           /\ last.error # "none" => last.ret = FALSE

\* a sequence of 11 was refused by a context with sequence 10
C34_Witness ==
    /\ last.op = "execute"
    /\ last.arg = <<PushItem(_encode_num(11)),
                    OpcodeItem(OpCode.OP_CHECKSEQUENCEVERIFY)>>
    /\ "sequence" \in DOMAIN last.before.transaction_context
    /\ last.error # "none"
    /\ interpreter.stack = last.before.stack \o <<_encode_num(11)>>

\* C35: Block.mine_block returns: the block it leaves has the first nonce,
\* counting from 0, whose hash starts with `difficulty` zeros, and the hash
\* of that nonce; when no nonce up to the safety limit has such a hash, the
\* search stops at the limit.
C35_MineBlockTerminates ==
    last.op = "mine_pending_transactions" =>
        LET b == last.ret
            Meets(nonce) ==
                StartsWithZeros(Block_calculate_hash([b EXCEPT !.nonce = nonce]),
                                b.difficulty)
        IN /\ b = chain[Len(chain)]
           /\ b.nonce \in 0..AttemptCap
           /\ b.hash = Block_calculate_hash(b)
           /\ \A nonce \in 0..(b.nonce - 1) : ~Meets(nonce)
           /\ Meets(b.nonce) \/ b.nonce = AttemptCap

\* a block whose nonce 0 missed the target and whose nonce 1 met it
C35_Witness ==
    /\ last.op = "mine_pending_transactions"
    /\ last.ret.nonce = 1
    /\ StartsWithZeros(last.ret.hash, last.ret.difficulty)

\* C36: mine_pending_transactions(m) with an empty pending pool adds exactly
\* one entry to the UTXO set and raises get_balance(m) by mining_reward, also
\* when an earlier block was mined to m with the same timestamp.
C36_EmptyBlockPaysReward ==
    [][(last'.op = "mine_pending_transactions" /\ pending_transactions = <<>>) =>
         /\ Cardinality(DOMAIN utxos') = Cardinality(DOMAIN utxos) + 1
         /\ get_balance(utxos', last'.arg) = get_balance(utxos, last'.arg) + mining_reward
      ]_vars

\* C37: add_transaction accepts a transaction that is not coinbase-shaped
\* only if every input carries the public key of the owner of the output it
\* refers to.
C37_SpenderOwnsInputs ==
    (/\ last.op = "add_transaction"
     /\ last.ret = TRUE
     /\ ~(Len(last.arg.inputs) = 1 /\ last.arg.inputs[1].prev_tx_hash = ZeroHash)) =>
        \A i \in 1..Len(last.arg.inputs) :
            LET inp == last.arg.inputs[i]
                key == UtxoKey(inp.prev_tx_hash, inp.prev_output_index)
            IN /\ key \in DOMAIN utxos
               /\ utxos[key].recipient_address = inp.public_key.by

\* C38: the amounts in the UTXO set sum to at most the genesis amount plus
\* mining_reward for every block after the genesis block.
C38_SupplyBounded ==
    UtxoTotal(utxos) <= GenesisAmount + mining_reward * (Len(chain) - 1)

C40_KnapsackOptimal ==
    (last.op = "dp_knapsack_selection"
        /\ Cardinality({i \in 1..Len(mempool) : mempool[i].parents = {}}) <= DpLimit) =>
        LET parentless == {mempool[i].tx_id : i \in {j \in 1..Len(mempool) :
                                                       mempool[j].parents = {}}}
            SumScaled[ids \in SUBSET parentless] ==
                IF ids = {} THEN 0
                ELSE LET x == CHOOSE y \in ids : TRUE
                     IN (get_transaction(mempool, x).size \div scale)
                        + SumScaled[ids \ {x}]
            fitting == {ids \in SUBSET parentless :
                           SumScaled[ids] <= last.arg \div scale}
            selected == last.ret.selected
        IN /\ last.ret.raised = "none"
           /\ \A i, j \in 1..Len(selected) : selected[i] = selected[j] => i = j
           /\ Range(selected) \subseteq parentless
           /\ SumFees(mempool, Range(selected)) = last.ret.total_fee
           /\ \E ids \in fitting : SumFees(mempool, ids) = last.ret.total_fee
           /\ \A ids \in fitting : SumFees(mempool, ids) <= last.ret.total_fee

\* with two units of budget the two transactions of one unit each (fee 12)
\* were taken and the one of two units (fee 10) was left
C40_Witness ==
    /\ last.op = "dp_knapsack_selection"
    /\ last.arg \div scale = 2
    /\ {"K1", "K2", "K3"} \subseteq TxIdsOf(mempool)
    /\ Range(last.ret.selected) = {"K1", "K2"}
    /\ last.ret.total_fee = 12

====
